---- MODULE Spec2Model ----
(***************************************************************************)
(* recruiter-outreach-bot: the store (database.py), the orchestrator       *)
(* (main.py run_pipeline), the sender (emailer.py) and the contact         *)
(* discovery engine (email_finder.py) as state machines.                   *)
(*                                                                         *)
(*   Spec        python main.py / python main.py --test run one after the  *)
(*               other against one store, from the empty database          *)
(*   SpecSender  send_cold_emails called with any candidate list           *)
(*   SpecStore   save_job and save_recruiter called with any arguments     *)
(*   SpecFinder  one find_recruiter_emails call, request by request        *)
(*   SpecDiscovery  the same call, and run_pipeline saving what it returned *)
(*   SpecFollowup   emails logged, days passing, follow-up candidates read  *)
(*   SpecHook    pick_achievement_hook / main_email called with any text   *)
(*   SpecCommands   every command of main.py on the store an earlier run   *)
(*               left                                                      *)
(*   SpecLowCap  Spec with max_per_company set below the daily limit       *)
(*   SpecTwoRuns two run_pipeline processes at once on one store, step by  *)
(*               step                                                      *)
(*   SpecLive    Spec from the store an earlier run left, with each step   *)
(*               of a started run taken in the end                         *)
(***************************************************************************)
EXTENDS Integers, Sequences, FiniteSets, TLC

\* ------------------------------------------------------------------ bounds
\* config.py:115  EMAIL_FINDER["max_per_company"] is 3; the model runs the same
\* code with a cap of 2 (and of 3 when the bounds are raised).
MAX_PER_COMPANY == 2
\* config.py:105  EMAIL_SETTINGS["daily_limit"] is 35; the model runs the same
\* code with a small limit so that runs reach it.
DAILY_LIMIT == 2
\* config.py:109  EMAIL_SETTINGS["followup_after_days"]
FOLLOWUP_AFTER_DAYS == 5
\* email addresses the discovery engine can surface
NumEmails == 4
\* jobs one scrape returns at most
MaxJobs == 2
\* pipeline runs (live or dry) in one behaviour
MaxRuns == 2
\* the clock (in days) stops advancing here
MaxDay == 6
\* days the clock advances between two commands
DayStep == 6

Emails == 1..NumEmails

\* ------------------------------------------------------------------ inputs
\* Company names as the scrapers return them; Lower is str.lower() / SQL LOWER().
Companies == {"Acme", "ACME", "Beta"}

Lower(c) == CASE c = "Acme" -> "acme"
              [] c = "ACME" -> "acme"
              [] c = "Beta" -> "beta"
              [] OTHER -> c

\* The postings a scrape can return: company, role, job_url.
JobUniverse ==
  { [company |-> "Acme", role |-> "backend intern", job_url |-> "u1"],
    [company |-> "ACME", role |-> "ml intern",      job_url |-> "u2"],
    [company |-> "Beta", role |-> "backend intern", job_url |-> "u3"] }

\* scraper.py deduplicate(): one job per lower(company)|lower(role).
\* (roles of JobUniverse are lower case already)
DedupKey(j) == <<Lower(j.company), j.role>>

RECURSIVE SeqsUpTo(_, _)
\* all sequences over S of length <= n without a repeated element
SeqsUpTo(S, n) ==
  IF n = 0 THEN { <<>> }
  ELSE LET shorter == SeqsUpTo(S, n - 1)
       IN shorter \cup
          { Append(s, x) : s \in { t \in shorter : Len(t) = n - 1 },
                           x \in S }

NoRepeat(s) == \A i, k \in 1..Len(s) : i # k => s[i] # s[k]

\* get_fresh_jobs(): a deduplicated list of postings
JobLists ==
  { s \in SeqsUpTo(JobUniverse, MaxJobs) :
      \A i, k \in 1..Len(s) : i # k => DedupKey(s[i]) # DedupKey(s[k]) }

\* How each address was found; the find_via_* functions fix verified by method.
MethodOf(e) == CASE e = 1 -> "apollo"
                 [] e = 2 -> "careers_page"
                 [] e = 3 -> "google_dork"
                 [] OTHER -> "pattern_generic"

ContactOf(e) ==
  [email |-> e, find_method |-> MethodOf(e),
   verified |-> MethodOf(e) \in {"apollo", "pattern_generic", "pattern_personal"}]

\* The addresses discovery can surface for a company: those at its domain
\* (Acme and ACME share one), and address 3 on the pages of both companies.
EmailsAt(company) ==
  IF Lower(company) = "acme" THEN { e \in Emails : e <= 3 }
  ELSE { e \in Emails : e >= 3 }

\* find_recruiter_emails(): at most MAX_PER_COMPANY contacts, no address twice
FinderResults(company) ==
  { [i \in 1..Len(s) |-> ContactOf(s[i])] :
      s \in { t \in SeqsUpTo(EmailsAt(company), MAX_PER_COMPANY) : NoRepeat(t) } }

VARIABLES
  \* ---- the store (database.py)
  jobs,            \* table jobs
  recruiters,      \* table recruiters
  emails_sent,     \* table emails_sent
  daily_summary,   \* table daily_summary
  \* ---- the environment
  now,             \* the clock, in days
  runs,            \* pipeline runs started so far
  \* ---- run_pipeline / send_cold_emails / send_followups (one process)
  pc,              \* "idle", "jobs", "send_start", "send", "followups_start",
                   \* "followups", "summary"
  mode,            \* "live", "dry", "followups_only"
  job_list,        \* jobs, the scrape's result
  job_idx,         \* position of the for loop over jobs
  job_id,          \* save_job's result for the current job
  candidates,      \* candidates
  stats,           \* stats
  send,            \* send_cold_emails' locals
  fu,              \* send_followups' locals
  \* ---- history of the current run, for the properties (discovered and
  \* examined are kept until the discovery phase has ended)
  n0,              \* rows of emails_sent when the run started
  discovered,      \* companies find_recruiter_emails was called for
  examined,        \* addresses find_recruiter_emails returned
  last_wire,       \* "none", "sent", "failed", "delay": last thing on the wire
  \* ---- history of the calls made on the store
  job_log,         \* save_job calls: arguments and returned id
  rec_log,         \* save_recruiter calls: arguments and returned id
  reply_log,       \* mark_got_reply calls: the address, and whether the
                   \* UPDATE matched a row
  \* ---- find_recruiter_emails (email_finder.py)
  cfg,             \* APOLLO_KEY set, EMAIL_FINDER flags, dnspython installed
  fpc,             \* "idle", the find_via_* function running, "done", "raised"
  all_contacts,    \* all_contacts
  seen_emails,     \* seen_emails
  loc,             \* the locals of the find_via_* function running
  fret,            \* the list find_recruiter_emails returned
  \* ---- history of the current find_recruiter_emails call
  calls,           \* the find_via_* functions it has called, in order
  mlast,           \* the last of them that returned, and what it returned
  last_probe,      \* the last smtp_verify_email call and what came of it
  \* ---- pick_achievement_hook / main_email (templates.py)
  hook_args,       \* job_description and role of the call
  hook_ret,        \* the function called and the hook_key it returned
  \* ---- two run_pipeline processes on one store
  procs            \* the locals and the position of each of the two

storeVars == <<jobs, recruiters, emails_sent, daily_summary>>
runVars   == <<pc, mode, job_list, job_idx, job_id, candidates,
               stats, send, fu, n0, discovered, examined, last_wire>>
logVars   == <<job_log, rec_log, reply_log>>
finderVars == <<cfg, fpc, all_contacts, seen_emails, loc, fret,
                calls, mlast, last_probe>>
hookVars  == <<hook_args, hook_ret>>
vars      == <<storeVars, now, runs, runVars, logVars, finderVars, hookVars, procs>>

\* ------------------------------------------------------------ database.py
\* Rows carry the AUTOINCREMENT id; nothing is deleted, so the next id is
\* the number of rows plus one.

JobKeyMatches(r, company, role, job_url) ==
  r.company = company /\ r.role = role /\ r.job_url = job_url

\* a plain INSERT without idx_jobs_unique: every call adds a row
save_job_plain_insert(rows, company, role, job_url, source) ==
  [rows |-> Append(rows, [id |-> Len(rows) + 1, company |-> company,
                          role |-> role, job_url |-> job_url,
                          source |-> source]),
   id   |-> Len(rows) + 1]

\* save_job: INSERT OR IGNORE under idx_jobs_unique, then the id of the row
save_job(rows, company, role, job_url, source) ==
  IF \E i \in 1..Len(rows) : JobKeyMatches(rows[i], company, role, job_url)
  THEN [rows |-> rows,
        id   |-> CHOOSE i \in 1..Len(rows) :
                   /\ JobKeyMatches(rows[i], company, role, job_url)
                   /\ \A k \in 1..Len(rows) :
                        JobKeyMatches(rows[k], company, role, job_url) => k <= i]
  ELSE [rows |-> Append(rows, [id |-> Len(rows) + 1, company |-> company,
                               role |-> role, job_url |-> job_url,
                               source |-> source]),
        id   |-> Len(rows) + 1]

\* an INSERT into a table whose email column is not UNIQUE
save_recruiter_plain_insert(rows, jid, company, contact) ==
  [rows |-> Append(rows, [id |-> Len(rows) + 1, job_id |-> jid,
                          company |-> company, email |-> contact.email,
                          find_method |-> contact.find_method,
                          verified |-> contact.verified]),
   id   |-> Len(rows) + 1]

\* save_recruiter: INSERT under email UNIQUE; None (0 here) on IntegrityError
save_recruiter(rows, jid, company, contact) ==
  IF \E i \in 1..Len(rows) : rows[i].email = contact.email
  THEN [rows |-> rows, id |-> 0]
  ELSE [rows |-> Append(rows, [id |-> Len(rows) + 1, job_id |-> jid,
                               company |-> company, email |-> contact.email,
                               find_method |-> contact.find_method,
                               verified |-> contact.verified]),
        id   |-> Len(rows) + 1]

already_contacted(rows, email) ==
  \E i \in 1..Len(rows) : rows[i].recruiter_email = email

\* SELECT COUNT(DISTINCT recruiter_email) ... WHERE LOWER(company) = LOWER(?)
company_contact_count(rows, company) ==
  Cardinality({ rows[i].recruiter_email :
                  i \in { k \in 1..Len(rows) :
                            Lower(rows[k].company) = Lower(company) } })

\* the comparison off by one: a company exactly at the cap is not maxed
is_company_maxed_above(rows, company, max_per_company) ==
  company_contact_count(rows, company) > max_per_company

is_company_maxed(rows, company, max_per_company) ==
  company_contact_count(rows, company) >= max_per_company

log_email_sent(rows, recruiter_id, company, recruiter_email, subject, date) ==
  Append(rows, [id |-> Len(rows) + 1, recruiter_id |-> recruiter_id,
                company |-> company, recruiter_email |-> recruiter_email,
                subject |-> subject, date_sent |-> date,
                followup_sent |-> 0, followup_date |-> -1, got_reply |-> 0])

\* the WHERE clause with date_sent <= ? in place of date_sent < ?
RECURSIVE SelectIds_at_cutoff(_, _, _)
SelectIds_at_cutoff(rows, i, cutoff) ==
  IF i > Len(rows) THEN <<>>
  ELSE LET rest == SelectIds_at_cutoff(rows, i + 1, cutoff)
       IN IF /\ rows[i].date_sent <= cutoff
             /\ rows[i].followup_sent = 0
             /\ rows[i].got_reply = 0
          THEN <<i>> \o rest ELSE rest

\* the WHERE clause without followup_sent = 0
RECURSIVE SelectIds_followed_up_too(_, _, _)
SelectIds_followed_up_too(rows, i, cutoff) ==
  IF i > Len(rows) THEN <<>>
  ELSE LET rest == SelectIds_followed_up_too(rows, i + 1, cutoff)
       IN IF /\ rows[i].date_sent < cutoff
             /\ rows[i].got_reply = 0
          THEN <<i>> \o rest ELSE rest

\* ids of the rows get_followup_candidates returns, in table order
RECURSIVE SelectIds(_, _, _)
SelectIds(rows, i, cutoff) ==
  IF i > Len(rows) THEN <<>>
  ELSE LET rest == SelectIds(rows, i + 1, cutoff)
       IN IF /\ rows[i].date_sent < cutoff
             /\ rows[i].followup_sent = 0
             /\ rows[i].got_reply = 0
          THEN <<i>> \o rest ELSE rest

get_followup_candidates(rows, followup_after_days, today) ==
  LET ids == SelectIds(rows, 1, today - followup_after_days)
  IN [k \in 1..Len(ids) |-> rows[ids[k]]]

\* the UPDATE writing date_sent as well
mark_followup_sent_redated(rows, email_id, date) ==
  [i \in 1..Len(rows) |->
     IF rows[i].id = email_id
     THEN [rows[i] EXCEPT !.followup_sent = 1, !.followup_date = date,
                          !.date_sent = date]
     ELSE rows[i]]

mark_followup_sent(rows, email_id, date) ==
  [i \in 1..Len(rows) |->
     IF rows[i].id = email_id
     THEN [rows[i] EXCEPT !.followup_sent = 1, !.followup_date = date]
     ELSE rows[i]]

\* the UPDATE left out: no row is marked
mark_got_reply_nothing(rows, recruiter_email) == rows

mark_got_reply(rows, recruiter_email) ==
  [i \in 1..Len(rows) |->
     IF rows[i].recruiter_email = recruiter_email
     THEN [rows[i] EXCEPT !.got_reply = 1]
     ELSE rows[i]]

\* the INSERT left out: no row is written
save_daily_summary_skipped(rows, st, date) == rows

\* The table is written and never read. Its rows keep the date column here;
\* the counts of a row are the run's `stats` at the moment it is written.
save_daily_summary(rows, st, date) ==
  Append(rows, [date |-> date])


\* --------------------------------------------------------- email_finder.py
\* pages_to_check has 7 URLs, queries 3 searches, generic_guesses 6
\* addresses, and the personal patterns are EMAIL_PATTERNS[:6]
NumPages == 7
NumQueries == 3
NumGeneric == 6
NumPatterns == 6
\* entries one response carries at most (people, addresses on a page)
MaxFound == 2
\* names one alumni search returns at most
MaxNames == 2

\* APOLLO_KEY set, EMAIL_FINDER["smtp_verify"], EMAIL_FINDER["asu_alumni_search"],
\* whether `import dns.resolver` succeeds, and EMAIL_FINDER["max_per_company"]
\* as main.py line 50 reads it
Configs == [apollo_key : BOOLEAN, smtp_verify : BOOLEAN,
            asu_alumni_search : BOOLEAN, dns : BOOLEAN,
            max_per_company : {MAX_PER_COMPANY}]

\* config.py as shipped, without APOLLO_API_KEY in the environment
DefaultConfig == [apollo_key |-> FALSE, smtp_verify |-> TRUE,
                  asu_alumni_search |-> TRUE, dns |-> TRUE,
                  max_per_company |-> MAX_PER_COMPANY]

\* Addresses are named by their local part; all are at the company's domain.
Contact(email, method, verified) ==
  [email |-> email, method |-> method, verified |-> verified]

Take(s, n) == SubSeq(s, 1, IF Len(s) < n THEN Len(s) ELSE n)

\* a response: what kind it is and the entries it carries
Resp(kind, entries) == [kind |-> kind, entries |-> entries]

\* What the Apollo API can answer: the request or resp.json() raises, or a
\* people list; "" is a person without (usable) email, "bad" an entry that
\* is no dict.
ApolloEntries == {"jane", "recruiting", "", "bad"}
ApolloOutcomes ==
  {Resp("exception", <<>>)} \cup
  {Resp("people", s) : s \in SeqsUpTo(ApolloEntries, MaxFound)}

\* What one GET of a careers page can give: an exception (timeout), a status
\* other than 200, or a page with the addresses extract_emails_from_text finds
CareersAddrs == {"jane", "hr", "noreply"}
PageOutcomes ==
  {Resp("exception", <<>>), Resp("not200", <<>>)} \cup
  {Resp("page", s) : s \in SeqsUpTo(CareersAddrs, MaxFound)}

\* What one Google search can give: an exception, a 429, or a result page
DorkAddrs == {"jane", "talent", "noreply"}
DorkOutcomes ==
  {Resp("exception", <<>>), Resp("429", <<>>)} \cup
  {Resp("page", s) : s \in SeqsUpTo(DorkAddrs, MaxFound)}

\* What the alumni search can give: an exception, or the names parsed from
\* the result titles
Names == {"jane doe", "jo doe"}
AlumniOutcomes ==
  {Resp("exception", <<>>)} \cup
  {Resp("names", s) : s \in SeqsUpTo(Names, MaxNames)}

\* generic_guesses, in order (lines 340-347)
GenericGuess == <<"recruiting", "talent", "hr", "careers", "hiring", "jobs">>

\* EMAIL_PATTERNS[:6] formatted for a name (lines 38-44, 373-379): first,
\* first.last, firstlast, flast, first_last, and the sixth pattern, which
\* is recruiting@domain
PersonalGuess(name) ==
  IF name = "jane doe"
  THEN <<"jane", "jane.doe", "janedoe", "jdoe", "jane_doe", "recruiting">>
  ELSE <<"jo", "jo.doe", "jodoe", "jdoe", "jo_doe", "recruiting">>

\* What a mailbox probe can meet: rcpt answers 250 or another code, or
\* dns.resolver / smtplib raise. Without the probe nothing is met.
ProbeOutcomes(c) ==
  IF c.smtp_verify /\ c.dns
  THEN {"250", "550", "NXDOMAIN", "NoAnswer", "SMTPConnectError", "timeout"}
  ELSE {"not_probed"}

\* the probe taking only NXDOMAIN as a refutation: `code == 250 or None`
smtp_verify_email_lenient(c, outcome) ==
  IF ~ c.smtp_verify THEN "None"
  ELSE IF ~ c.dns THEN "None"
  ELSE CASE outcome = "250" -> "True"
         [] outcome = "NXDOMAIN" -> "False"
         [] OTHER -> "None"

\* smtp_verify_email: True, False or None
smtp_verify_email(c, outcome) ==
  IF ~ c.smtp_verify THEN "None"
  ELSE IF ~ c.dns THEN "None"
  ELSE CASE outcome = "250" -> "True"
         [] outcome = "550" -> "False"
         [] outcome = "NXDOMAIN" -> "False"
         [] outcome = "NoAnswer" -> "None"
         [] outcome = "SMTPConnectError" -> "None"
         [] OTHER -> "None"

\* a candidate is kept unless the probe refuted it
accepts_unless_refuted(verified) == verified # "False"

\* `if verified:` (lines 351, 382)
accepts(verified) == verified = "True"

\* The locals of a find_via_* function: its loop position, contacts,
\* found_emails, known_names and the name it is at; and, as history, whether
\* an HTTP request of it raised (failed), whether one completed (ok), and
\* whether an exception left the function (raised).
NoLoc == [phase |-> "request", idx |-> 1, contacts |-> <<>>,
          found_emails |-> {}, names |-> <<>>, name_idx |-> 1,
          failed |-> FALSE, ok |-> FALSE, raised |-> FALSE]

NoMethod == [method |-> "none", failed |-> FALSE, ok |-> FALSE,
             returned |-> <<>>]

NoProbe == [email |-> "", outcome |-> "none", verified |-> "None",
            added |-> FALSE]

\* the end of one iteration of a loop over n requests
next_iter(l, n) ==
  IF l.idx >= n THEN [l EXCEPT !.phase = "done"] ELSE [l EXCEPT !.idx = @ + 1]

\* find_via_apollo lines 164-176: `for person in people`
RECURSIVE apollo_people(_, _)
apollo_people(people, contacts) ==
  IF people = <<>> THEN [contacts |-> contacts, failed |-> FALSE]
  ELSE LET person == Head(people) IN
       IF person = "bad"
       THEN \* person.get raises; except Exception keeps the contacts so far
            [contacts |-> contacts, failed |-> TRUE]
       ELSE IF person = ""
       THEN apollo_people(Tail(people), contacts)
       ELSE apollo_people(Tail(people),
                          Append(contacts, Contact(person, "apollo", TRUE)))

\* find_via_apollo, whole
find_via_apollo(l, c, outcome) ==
  IF ~ c.apollo_key THEN [l EXCEPT !.phase = "done"]
  ELSE IF outcome.kind = "exception"
  THEN [l EXCEPT !.phase = "done", !.failed = TRUE]
  ELSE LET r == apollo_people(outcome.entries, <<>>)
       IN [l EXCEPT !.phase = "done", !.ok = TRUE,
                    !.failed = r.failed, !.contacts = r.contacts]

\* the page scrape marking what it finds as verified
RECURSIVE careers_emails_preverified(_, _, _)
careers_emails_preverified(emails, contacts, found_emails) ==
  IF emails = <<>>
  THEN [contacts |-> contacts, found_emails |-> found_emails]
  ELSE LET email == Head(emails) IN
       IF email \in found_emails \/ email = "noreply"
       THEN careers_emails_preverified(Tail(emails), contacts, found_emails)
       ELSE careers_emails_preverified(Tail(emails),
                           Append(contacts,
                                  Contact(email, "careers_page", TRUE)),
                           found_emails \cup {email})

\* find_via_careers_page lines 222-244: `for email in emails`
RECURSIVE careers_emails(_, _, _)
careers_emails(emails, contacts, found_emails) ==
  IF emails = <<>>
  THEN [contacts |-> contacts, found_emails |-> found_emails]
  ELSE LET email == Head(emails) IN
       IF email \in found_emails \/ email = "noreply"
       THEN careers_emails(Tail(emails), contacts, found_emails)
       ELSE careers_emails(Tail(emails),
                           Append(contacts,
                                  Contact(email, "careers_page", FALSE)),
                           found_emails \cup {email})

\* find_via_careers_page lines 211-252: one iteration of `for url in
\* pages_to_check`
find_via_careers_page(l, outcome) ==
  IF outcome.kind = "exception"
  THEN next_iter([l EXCEPT !.failed = TRUE], NumPages)
  ELSE IF outcome.kind = "not200"
  THEN next_iter([l EXCEPT !.ok = TRUE], NumPages)
  ELSE LET r  == careers_emails(outcome.entries, l.contacts, l.found_emails)
           l2 == [l EXCEPT !.ok = TRUE, !.contacts = r.contacts,
                           !.found_emails = r.found_emails]
       IN IF r.contacts # <<>> THEN [l2 EXCEPT !.phase = "done"]
          ELSE next_iter(l2, NumPages)

\* find_via_google_dork lines 295-305: `for email in emails`
RECURSIVE dork_emails(_, _)
dork_emails(emails, contacts) ==
  IF emails = <<>> THEN contacts
  ELSE LET email == Head(emails) IN
       IF email = "noreply" THEN dork_emails(Tail(emails), contacts)
       ELSE dork_emails(Tail(emails),
                        Append(contacts, Contact(email, "google_dork", FALSE)))

\* what one iteration does with a response that did not raise
dork_response(l, outcome) ==
  IF outcome.kind = "429"
  THEN next_iter([l EXCEPT !.ok = TRUE], NumQueries)
  ELSE LET l2 == [l EXCEPT !.ok = TRUE,
                           !.contacts = dork_emails(outcome.entries, @)]
       IN IF l2.contacts # <<>> THEN [l2 EXCEPT !.phase = "done"]
          ELSE next_iter(l2, NumQueries)

\* the loop without its try/except: the exception leaves the function
find_via_google_dork_unhandled(l, outcome) ==
  IF outcome.kind = "exception"
  THEN [l EXCEPT !.failed = TRUE, !.raised = TRUE, !.phase = "done"]
  ELSE dork_response(l, outcome)

\* find_via_google_dork lines 279-313: one iteration of `for query in queries`
find_via_google_dork(l, outcome) ==
  IF outcome.kind = "exception"
  THEN next_iter([l EXCEPT !.failed = TRUE], NumQueries)
  ELSE dork_response(l, outcome)

\* find_via_pattern_guess lines 364-365: after the generic loop
after_generic(l) ==
  IF l.names # <<>> /\ Len(l.contacts) < MAX_PER_COMPANY
  THEN [l EXCEPT !.phase = "personal", !.idx = 1, !.name_idx = 1]
  ELSE [l EXCEPT !.phase = "done"]

\* find_via_pattern_guess lines 349-362: one iteration of `for ... in
\* generic_guesses`, smtp_verify_email having returned `verified`
probe_generic(l, verified) ==
  LET email == GenericGuess[l.idx]
      l2 == IF accepts(verified)
            THEN [l EXCEPT !.contacts =
                    Append(@, Contact(email, "pattern_generic", TRUE))]
            ELSE l
  IN IF Len(l2.contacts) >= MAX_PER_COMPANY \/ l.idx >= NumGeneric
     THEN after_generic(l2)
     ELSE [l2 EXCEPT !.idx = @ + 1]

\* find_via_pattern_guess lines 395-396: after the patterns of one name
after_name(l) ==
  IF Len(l.contacts) >= MAX_PER_COMPANY \/ l.name_idx >= Len(l.names)
  THEN [l EXCEPT !.phase = "done"]
  ELSE [l EXCEPT !.name_idx = @ + 1, !.idx = 1]

\* find_via_pattern_guess lines 373-393: one iteration of `for pattern in
\* EMAIL_PATTERNS[:6]`
probe_personal(l, verified) ==
  LET email == PersonalGuess(l.names[l.name_idx])[l.idx] IN
  IF accepts(verified)
  THEN after_name([l EXCEPT !.contacts =
                     Append(@, Contact(email, "pattern_personal", TRUE))])
  ELSE IF l.idx >= NumPatterns THEN after_name(l)
  ELSE [l EXCEPT !.idx = @ + 1]

\* find_via_asu_alumni lines 417-465, up to the call of find_via_pattern_guess
find_via_asu_alumni(l, c, outcome) ==
  IF ~ c.asu_alumni_search THEN [l EXCEPT !.phase = "done"]
  ELSE IF outcome.kind = "exception"
  THEN [l EXCEPT !.failed = TRUE, !.phase = "done"]
  ELSE IF outcome.entries = <<>>
  THEN [l EXCEPT !.ok = TRUE, !.phase = "done"]
  ELSE [l EXCEPT !.ok = TRUE, !.names = outcome.entries, !.phase = "generic"]

\* the list a find_via_* function returns: the first three methods cut it
method_result(method, l) ==
  IF method \in {"apollo", "careers_page", "google_dork"}
  THEN Take(l.contacts, MAX_PER_COMPANY)
  ELSE l.contacts

\* add_contacts without seen_emails: every contact is appended
RECURSIVE add_contacts_all(_, _, _)
add_contacts_all(all, seen, new) ==
  IF new = <<>> THEN [all_contacts |-> all, seen_emails |-> seen]
  ELSE add_contacts_all(Append(all, Head(new)),
                        seen \cup {Head(new).email}, Tail(new))

\* find_recruiter_emails lines 483-487: add_contacts
RECURSIVE add_contacts(_, _, _)
add_contacts(all, seen, new) ==
  IF new = <<>> THEN [all_contacts |-> all, seen_emails |-> seen]
  ELSE LET c == Head(new) IN
       IF c.email \notin seen
       THEN add_contacts(Append(all, c), seen \cup {c.email}, Tail(new))
       ELSE add_contacts(all, seen, Tail(new))

\* the early exit never taken at exactly the cap
enough_above(all) == Len(all) > MAX_PER_COMPANY

\* `if len(all_contacts) >= MAX_PER_COMPANY` (lines 492, 497, 502, 507)
enough(all) == Len(all) >= MAX_PER_COMPANY

\* the order of find_recruiter_emails, lines 489-511
Methods == {"apollo", "careers_page", "google_dork", "pattern_guess",
            "asu_alumni"}

first_method(c) == IF c.apollo_key THEN "apollo" ELSE "careers_page"

next_method(method) ==
  CASE method = "apollo"        -> "careers_page"
    [] method = "careers_page"  -> "google_dork"
    [] method = "google_dork"   -> "pattern_guess"
    [] method = "pattern_guess" -> "asu_alumni"
    [] OTHER                    -> "done"

\* the locals a find_via_* function starts with
start_loc(method) ==
  IF method = "pattern_guess" THEN [NoLoc EXCEPT !.phase = "generic"]
  ELSE NoLoc

\* ------------------------------------------------------------ templates.py
\* Texts are sequences of characters, so that `kw in combined` is what it is
\* in Python: the keyword occurs anywhere in the text, inside a word too.

\* config.py lines 53-90: ACHIEVEMENTS without "default", in dict order
ACHIEVEMENTS == <<
    [key |-> "ml_ai", keywords |-> <<
        <<"m", "l">>,
        <<"a", "i">>,
        <<"n", "l", "p">>,
        <<"m", "a", "c", "h", "i", "n", "e", " ", "l", "e", "a", "r", "n", "i", "n", "g">>,
        <<"l", "l", "m">>,
        <<"v", "e", "c", "t", "o", "r">>,
        <<"e", "m", "b", "e", "d", "d", "i", "n", "g">>,
        <<"d", "e", "e", "p", " ", "l", "e", "a", "r", "n", "i", "n", "g">>,
        <<"d", "a", "t", "a", " ", "s", "c", "i", "e", "n", "c", "e">>,
        <<"n", "l", "p">> >>],
    [key |-> "cloud_devops", keywords |-> <<
        <<"a", "w", "s">>,
        <<"c", "l", "o", "u", "d">>,
        <<"d", "o", "c", "k", "e", "r">>,
        <<"k", "u", "b", "e", "r", "n", "e", "t", "e", "s">>,
        <<"l", "a", "m", "b", "d", "a">>,
        <<"g", "c", "p">>,
        <<"d", "e", "v", "o", "p", "s">>,
        <<"i", "n", "f", "r", "a", "s", "t", "r", "u", "c", "t", "u", "r", "e">>,
        <<"t", "e", "r", "r", "a", "f", "o", "r", "m">>,
        <<"c", "i", "/", "c", "d">>,
        <<"a", "z", "u", "r", "e">> >>],
    [key |-> "frontend", keywords |-> <<
        <<"r", "e", "a", "c", "t">>,
        <<"f", "r", "o", "n", "t", "e", "n", "d">>,
        <<"u", "i">>,
        <<"n", "e", "x", "t", ".", "j", "s">>,
        <<"n", "e", "x", "t", "j", "s">>,
        <<"w", "e", "b">>,
        <<"t", "y", "p", "e", "s", "c", "r", "i", "p", "t">>,
        <<"j", "a", "v", "a", "s", "c", "r", "i", "p", "t">>,
        <<"t", "a", "i", "l", "w", "i", "n", "d">>,
        <<"v", "u", "e">>,
        <<"a", "n", "g", "u", "l", "a", "r">> >>],
    [key |-> "backend", keywords |-> <<
        <<"a", "p", "i">>,
        <<"b", "a", "c", "k", "e", "n", "d">>,
        <<"m", "i", "c", "r", "o", "s", "e", "r", "v", "i", "c", "e", "s">>,
        <<"r", "e", "s", "t">>,
        <<"g", "r", "a", "p", "h", "q", "l">>,
        <<"n", "o", "d", "e">>,
        <<"f", "a", "s", "t", "a", "p", "i">>,
        <<"s", "p", "r", "i", "n", "g">>,
        <<"d", "j", "a", "n", "g", "o">>,
        <<"d", "a", "t", "a", "b", "a", "s", "e">>,
        <<"s", "q", "l">>,
        <<"p", "o", "s", "t", "g", "r", "e", "s", "q", "l">>,
        <<"m", "o", "n", "g", "o", "d", "b">>,
        <<"r", "e", "d", "i", "s">>,
        <<"s", "y", "s", "t", "e", "m", "s">> >>] >>

\* str.lower() on the letters
UpperToLower ==
  "A" :> "a" @@ "B" :> "b" @@ "C" :> "c" @@ "D" :> "d" @@ "E" :> "e" @@
  "F" :> "f" @@ "G" :> "g" @@ "H" :> "h" @@ "I" :> "i" @@ "J" :> "j" @@
  "K" :> "k" @@ "L" :> "l" @@ "M" :> "m" @@ "N" :> "n" @@ "O" :> "o" @@
  "P" :> "p" @@ "Q" :> "q" @@ "R" :> "r" @@ "S" :> "s" @@ "T" :> "t" @@
  "U" :> "u" @@ "V" :> "v" @@ "W" :> "w" @@ "X" :> "x" @@ "Y" :> "y" @@
  "Z" :> "z"

lower_char(ch) == IF ch \in DOMAIN UpperToLower THEN UpperToLower[ch] ELSE ch

\* the text left as it is, upper case included
text_as_is(text) == text

\* str.lower()
text_lower(text) == [i \in 1..Len(text) |-> lower_char(text[i])]

\* `kw in combined`
Occurs(kw, text) ==
  \E i \in 1..(Len(text) - Len(kw) + 1) :
    SubSeq(text, i, i + Len(kw) - 1) = kw

\* any(kw in combined for kw in data["keywords"])
any_keyword(keywords, combined) ==
  \E k \in 1..Len(keywords) : Occurs(keywords[k], combined)

\* pick_achievement_hook lines 32-39: `for key, data in ACHIEVEMENTS.items()`
\* from group g on
RECURSIVE first_matching(_, _)
first_matching(g, combined) ==
  IF g > Len(ACHIEVEMENTS) THEN "default"
  ELSE IF any_keyword(ACHIEVEMENTS[g].keywords, combined)
  THEN ACHIEVEMENTS[g].key
  ELSE first_matching(g + 1, combined)

\* pick_achievement_hook(job_description, role): the hook_key it returns
pick_achievement_hook(job_description, role) ==
  first_matching(1, text_lower(job_description \o <<" ">> \o role))

\* main_email(...): the hook_key of the tuple it returns (lines 78-79, 116)
main_email(job_description, role) ==
  pick_achievement_hook(job_description, role)

\* ---- the texts the functions are called with
\* words a description is made of
DescWords == {
  <<"A", "W", "S">>,
  <<"b", "a", "c", "k", "e", "n", "d">>,
  <<"R", "e", "a", "c", "t">>,
  <<"U", "I">>,
  <<"S", "Q", "L">>,
  <<"T", "a", "i", "l", "w", "i", "n", "d">>,
  <<"E", "x", "c", "e", "l">> }

\* words of a description made of DescWords
MaxWords == 2

\* "AWS Docker Kubernetes backend microservices API" (test_setup.py line 259)
AwsDescription ==
  <<"A", "W", "S", " ", "D", "o", "c", "k", "e", "r", " ", "K", "u", "b",
    "e", "r", "n", "e", "t", "e", "s", " ", "b", "a", "c", "k", "e", "n",
    "d", " ", "m", "i", "c", "r", "o", "s", "e", "r", "v", "i", "c", "e",
    "s", " ", "A", "P", "I">>

\* "React TypeScript TailwindCSS frontend UI" (test_setup.py line 273)
ReactDescription ==
  <<"R", "e", "a", "c", "t", " ", "T", "y", "p", "e", "S", "c", "r", "i",
    "p", "t", " ", "T", "a", "i", "l", "w", "i", "n", "d", "C", "S", "S",
    " ", "f", "r", "o", "n", "t", "e", "n", "d", " ", "U", "I">>

\* "AWS, Docker, Kubernetes" (the same skills as a list)
AwsList ==
  <<"A", "W", "S", ",", " ", "D", "o", "c", "k", "e", "r", ",", " ", "K",
    "u", "b", "e", "r", "n", "e", "t", "e", "s">>

\* "React, TypeScript, Tailwind" (the same skills as a list)
ReactList ==
  <<"R", "e", "a", "c", "t", ",", " ", "T", "y", "p", "e", "S", "c", "r",
    "i", "p", "t", ",", " ", "T", "a", "i", "l", "w", "i", "n", "d">>

\* "Backend Engineer Intern" (test_setup.py line 258)
BackendRole ==
  <<"B", "a", "c", "k", "e", "n", "d", " ", "E", "n", "g", "i", "n", "e",
    "e", "r", " ", "I", "n", "t", "e", "r", "n">>

\* "Frontend React Intern" (test_setup.py line 272)
FrontendRole ==
  <<"F", "r", "o", "n", "t", "e", "n", "d", " ", "R", "e", "a", "c", "t",
    " ", "I", "n", "t", "e", "r", "n">>

\* "Sales Intern" (a role no keyword occurs in)
SalesRole ==
  <<"S", "a", "l", "e", "s", " ", "I", "n", "t", "e", "r", "n">>

\* str.join(" ", words)
RECURSIVE join(_)
join(words_) ==
  IF words_ = <<>> THEN <<>>
  ELSE IF Len(words_) = 1 THEN words_[1]
  ELSE words_[1] \o <<" ">> \o join(Tail(words_))

Descriptions ==
  {AwsDescription, ReactDescription, AwsList, ReactList} \cup
  { join(ws) : ws \in SeqsUpTo(DescWords, MaxWords) }

Roles == {BackendRole, FrontendRole, SalesRole, <<>>}

\* no call of the functions made yet / the result of the call made
NoHook == [fn |-> "none", key |-> "none"]

InitHook == hook_args = [job_description |-> <<>>, role |-> <<>>] /\ hook_ret = NoHook

\* ---------------------------------------------------------------- main.py
NoStats == [jobs_found |-> 0, emails_found |-> 0, emails_sent |-> 0,
            followups_sent |-> 0, companies_skipped |-> 0, errors |-> <<>>]
NoSend  == [idx |-> 1, sent_count |-> 0, contacts_sent |-> <<>>, errors |-> <<>>]
NoFu    == [list |-> <<>>, idx |-> 1, sent_count |-> 0]

\* the empty database init_db() creates, and no call made on it yet
InitStore ==
  /\ jobs = <<>> /\ recruiters = <<>> /\ emails_sent = <<>>
  /\ daily_summary = <<>>
  /\ job_log = <<>> /\ rec_log = <<>> /\ reply_log = {}

\* no command running
\* a process that has not called run_pipeline: no locals
\* (seen and refused are history: the addresses the contact loop came to,
\* and those save_recruiter returned None for)
NoProc == [pc |-> "idle", job |-> <<>>, found |-> <<>>, job_id |-> 0,
           candidates |-> <<>>, seen |-> {}, refused |-> {},
           idx |-> 1, sent_count |-> 0]

Procs == {1, 2}

InitProcs == procs = [p \in Procs |-> NoProc]

InitRun ==
  /\ now = 0 /\ runs = 0
  /\ pc = "idle" /\ mode = "live"
  /\ job_list = <<>> /\ job_idx = 1 /\ job_id = 0
  /\ candidates = <<>>
  /\ stats = NoStats /\ send = NoSend /\ fu = NoFu
  /\ n0 = 0 /\ discovered = {} /\ examined = {} /\ last_wire = "none"

\* no find_recruiter_emails call running, under configuration c
InitFind(c) ==
  /\ cfg = c /\ fpc = "idle"
  /\ all_contacts = <<>> /\ seen_emails = {} /\ loc = NoLoc /\ fret = <<>>
  /\ calls = <<>> /\ mlast = NoMethod /\ last_probe = NoProbe

Init ==
  InitStore /\ InitRun /\ InitFind(DefaultConfig) /\ InitHook /\ InitProcs

\* The command has returned: its locals are gone.
Return ==
  /\ pc' = "idle" /\ mode' = "live"
  /\ job_list' = <<>> /\ job_idx' = 1 /\ job_id' = 0
  /\ candidates' = <<>>
  /\ stats' = NoStats /\ send' = NoSend /\ fu' = NoFu
  /\ n0' = 0 /\ discovered' = {} /\ examined' = {} /\ last_wire' = "none"

\* run_pipeline(dry_run), lines 56-82: STEP 1, the scrape
RunPipeline(dry_run) ==
  /\ UNCHANGED <<logVars, finderVars, hookVars, procs>>
  /\ pc = "idle" /\ runs < MaxRuns
  /\ runs' = runs + 1
  /\ mode' = IF dry_run THEN "dry" ELSE "live"
  /\ \E scraped \in JobLists, failed \in BOOLEAN :
       /\ failed => scraped = <<>>
       /\ job_list' = scraped
       /\ stats' = [NoStats EXCEPT
                      !.jobs_found = Len(scraped),
                      !.errors = IF failed THEN <<"Scraper failed">> ELSE <<>>]
  /\ pc' = "jobs" /\ job_idx' = 1 /\ job_id' = 0
  /\ candidates' = <<>>
  /\ send' = NoSend /\ fu' = NoFu
  /\ n0' = Len(emails_sent) /\ discovered' = {} /\ examined' = {}
  /\ last_wire' = "none"
  /\ UNCHANGED <<storeVars, now>>

\* the limit taken as reached only once it is exceeded
limit_reached_above(cands) == Len(cands) > DAILY_LIMIT

\* `if len(candidates) >= DAILY_LIMIT: break` (lines 88-89 and 165-166)
limit_reached(cands) == Len(cands) >= DAILY_LIMIT

\* the count comparing the names as they are written
current_in_run_exact(cands, company) ==
  Cardinality({ i \in 1..Len(cands) : cands[i].company = company })

\* candidates queued in this run for the company (lines 129-131)
current_in_run(cands, company) ==
  Cardinality({ i \in 1..Len(cands) :
                  Lower(cands[i].company) = Lower(company) })

\* The contact loop without its duplicate guards: no already_contacted check,
\* and a contact whose insert was refused is queued all the same.
RECURSIVE examine_contacts_unguarded(_, _, _, _, _, _)
examine_contacts_unguarded(recs, cands, sent, job, jid, found) ==
  IF found = <<>>
  THEN [recruiters |-> recs, candidates |-> cands]
  ELSE LET contact == Head(found) IN
       IF current_in_run(cands, job.company) >= cfg.max_per_company
       THEN [recruiters |-> recs, candidates |-> cands]
       ELSE LET saved == save_recruiter(recs, jid, job.company, contact)
                queued == Append(cands,
                            [recruiter_id |-> saved.id, company |-> job.company,
                             role |-> job.role, email |-> contact.email])
            IN IF Len(queued) >= DAILY_LIMIT
               THEN [recruiters |-> saved.rows, candidates |-> queued]
               ELSE examine_contacts_unguarded(saved.rows, queued, sent, job,
                                               jid, Tail(found))

\* run_pipeline lines 117-166: `for contact in recruiter_contacts`, from the
\* contact at the head of `found` on; the recruiters table and the candidate
\* list it leaves
RECURSIVE examine_contacts(_, _, _, _, _, _)
examine_contacts(recs, cands, sent, job, jid, found) ==
  IF found = <<>>
  THEN [recruiters |-> recs, candidates |-> cands]
  ELSE LET contact == Head(found) IN
       IF already_contacted(sent, contact.email)
       THEN examine_contacts(recs, cands, sent, job, jid, Tail(found))
       ELSE IF current_in_run(cands, job.company) >= cfg.max_per_company
       THEN [recruiters |-> recs, candidates |-> cands]
       ELSE LET saved == save_recruiter(recs, jid, job.company, contact) IN
            IF saved.id = 0
            THEN examine_contacts(saved.rows, cands, sent, job, jid, Tail(found))
            ELSE LET queued == Append(cands,
                        [recruiter_id |-> saved.id, company |-> job.company,
                         role |-> job.role, email |-> contact.email])
                 IN IF limit_reached(queued)
                    THEN [recruiters |-> saved.rows, candidates |-> queued]
                    ELSE examine_contacts(saved.rows, queued, sent, job, jid,
                                          Tail(found))

\* the handler leaving the job loop: `break` in place of `continue`
on_finder_error_break(st, idx) ==
  [stats   |-> [st EXCEPT !.errors = Append(@, "Email finder failed")],
   job_idx |-> MaxJobs + 1]

\* run_pipeline lines 107-110: find_recruiter_emails raised; the error is
\* added to stats["errors"] and `continue` goes to the next job
on_finder_error(st, idx) ==
  [stats   |-> [st EXCEPT !.errors = Append(@, "Email finder failed")],
   job_idx |-> idx + 1]

\* the flag not looked at: a dry run goes on to send like a live one
dry_run_ignored(m) == FALSE

\* `if dry_run:` (lines 171-175): the candidates are listed and run_pipeline
\* returns; STEP 3 onwards is in the `else:`
dry_run_returns(m) == m = "dry"

\* run_pipeline lines 87-166: one iteration of `for job in jobs`, or the end
\* of the loop (lines 168-176)
JobLoop ==
  /\ UNCHANGED <<logVars, finderVars, hookVars, procs>>
  /\ pc = "jobs"
  /\ IF job_idx > Len(job_list) \/ limit_reached(candidates)
     THEN \* the loop is over: a dry run returns, a live run goes on to send
          IF dry_run_returns(mode)
          THEN Return /\ UNCHANGED <<storeVars, now, runs>>
          ELSE /\ pc' = "send_start"
               /\ UNCHANGED <<storeVars, now, runs, mode, job_list, job_idx,
                              job_id, candidates, stats, send, fu,
                              n0, discovered, examined, last_wire>>
     ELSE LET job == job_list[job_idx] IN
          IF is_company_maxed(emails_sent, job.company, cfg.max_per_company)
          THEN /\ stats' = [stats EXCEPT !.companies_skipped = @ + 1]
               /\ job_idx' = job_idx + 1
               /\ UNCHANGED <<storeVars, now, runs, pc, mode, job_list, job_id,
                              candidates, send, fu, n0, discovered, examined,
                              last_wire>>
          ELSE LET saved == save_job(jobs, job.company, job.role, job.job_url,
                                     "scraper") IN
               /\ jobs' = saved.rows
               /\ job_id' = saved.id
               /\ discovered' = discovered \cup {job.company}
               /\ \E raised \in BOOLEAN, found \in FinderResults(job.company) :
                    /\ raised => found = <<>>
                    /\ Len(found) <= cfg.max_per_company
                    /\ IF raised
                       THEN LET handled == on_finder_error(stats, job_idx)
                            IN /\ stats' = handled.stats
                               /\ job_idx' = handled.job_idx
                       ELSE /\ stats' = [stats EXCEPT
                                           !.emails_found = @ + Len(found)]
                            /\ job_idx' = job_idx + 1
                    /\ examined' = examined \cup
                                      { found[i].email : i \in 1..Len(found) }
                    /\ LET done == examine_contacts(recruiters, candidates,
                                     emails_sent, job, saved.id, found)
                       IN /\ recruiters' = done.recruiters
                          /\ candidates' = done.candidates
               /\ UNCHANGED <<emails_sent, daily_summary, now, runs, pc,
                              mode, job_list, send, fu, n0, last_wire>>

\* ------------------------------------------------------------- emailer.py
\* the error text of the failed connection lost on the way
on_connect_error_silent(st) == [st EXCEPT !.emails_sent = 0]

\* get_smtp_connection raised (emailer.py lines 246-249): send_cold_emails
\* returns 0, [] and the error text, which run_pipeline puts into stats
\* (main.py lines 179-182)
on_connect_error(st) ==
  [st EXCEPT !.emails_sent = 0,
             !.errors = Append(@, "Critical emailer error")]

\* send_cold_emails lines 179-194: no candidates, or get_smtp_connection()
\* (which raises when Gmail cannot be reached or refuses the login)
SendConnect ==
  /\ UNCHANGED <<logVars, finderVars, hookVars, procs>>
  /\ pc = "send_start"
  /\ IF candidates = <<>>
     THEN \* return 0, [], ""
          /\ pc' = "followups_start"
          /\ stats' = [stats EXCEPT !.emails_sent = 0]
          /\ UNCHANGED send
     ELSE \E connected \in BOOLEAN :
            IF connected
            THEN /\ pc' = "send" /\ send' = NoSend
                 /\ UNCHANGED stats
            ELSE \* except Exception: errors.append("Critical emailer error")
                 /\ pc' = "followups_start"
                 /\ send' = [NoSend EXCEPT !.errors = <<"Critical emailer error">>]
                 /\ stats' = on_connect_error(stats)
  /\ discovered' = {} /\ examined' = {}
  /\ UNCHANGED <<storeVars, now, runs, mode, job_list, job_idx, job_id,
                 candidates, fu, n0, last_wire>>

\* the sender without its final check
SkipsCandidate_never(rows, email) == FALSE

\* the final duplicate check right before sending (lines 210-213)
SkipsCandidate(rows, email) == already_contacted(rows, email)

\* a failed send counted like a successful one
send_failed_counted(snd) ==
  [snd EXCEPT !.idx = @ + 1,
              !.sent_count = @ + 1,
              !.errors = Append(@, "Failed to send")]

\* send_single_email returned False (lines 243-244): the error is noted and
\* the loop goes on with the next candidate
send_failed(snd) ==
  [snd EXCEPT !.idx = @ + 1,
              !.errors = Append(@, "Failed to send")]

\* send_cold_emails lines 196-262: one iteration of `for candidate in
\* candidates`, or the return to run_pipeline (main.py lines 179-182)
SendLoop ==
  /\ UNCHANGED <<logVars, finderVars, hookVars, procs>>
  /\ pc = "send"
  /\ IF send.idx > Len(candidates) \/ send.sent_count >= DAILY_LIMIT
     THEN /\ pc' = "followups_start"
          /\ stats' = [stats EXCEPT
                         !.emails_sent = send.sent_count,
                         !.errors = IF send.errors = <<>> THEN @
                                    ELSE @ \o send.errors]
          /\ UNCHANGED <<storeVars, send, last_wire>>
     ELSE LET candidate == candidates[send.idx] IN
          IF SkipsCandidate(emails_sent, candidate.email)
          THEN /\ send' = [send EXCEPT !.idx = @ + 1]
               /\ UNCHANGED <<storeVars, pc, stats, last_wire>>
          ELSE \E success \in BOOLEAN :
                 IF success
                 THEN /\ emails_sent' =
                           log_email_sent(emails_sent, candidate.recruiter_id,
                                          candidate.company, candidate.email,
                                          <<candidate.role, candidate.company>>,
                                          now)
                      /\ send' = [send EXCEPT
                                    !.idx = @ + 1,
                                    !.sent_count = @ + 1,
                                    !.contacts_sent = Append(@, candidate.email)]
                      /\ last_wire' = IF send.sent_count + 1 < DAILY_LIMIT
                                      THEN "delay" ELSE "sent"
                      /\ UNCHANGED <<jobs, recruiters, daily_summary, pc, stats>>
                 ELSE /\ send' = send_failed(send)
                      /\ last_wire' = "failed"
                      /\ UNCHANGED <<storeVars, pc, stats>>
  /\ UNCHANGED <<now, runs, mode, job_list, job_idx, job_id,
                 candidates, fu, n0, discovered, examined>>

\* main.py lines 189-199 (and 269-271): get_followup_candidates, then
\* send_followups lines 278-290
FollowupStart ==
  /\ UNCHANGED <<logVars, finderVars, hookVars, procs>>
  /\ pc = "followups_start"
  /\ LET list == get_followup_candidates(emails_sent, FOLLOWUP_AFTER_DAYS, now) IN
     IF list = <<>>
     THEN IF mode = "followups_only"
          THEN Return
          ELSE /\ pc' = "summary"
               /\ UNCHANGED <<mode, job_list, job_idx, job_id,
                              candidates, stats, send, fu, n0, discovered, examined,
                              last_wire>>
     ELSE \E connected \in BOOLEAN :
            IF connected
            THEN /\ pc' = "followups"
                 /\ fu' = [list |-> list, idx |-> 1, sent_count |-> 0]
                 /\ UNCHANGED <<mode, job_list, job_idx, job_id,
                                candidates, stats, send, n0, discovered, examined,
                                last_wire>>
            ELSE \* send_followups logs the error and returns 0
                 IF mode = "followups_only"
                 THEN Return
                 ELSE /\ pc' = "summary"
                      /\ stats' = [stats EXCEPT !.followups_sent = 0]
                      /\ UNCHANGED <<mode, job_list, job_idx, job_id,
                                     candidates, send, fu, n0, discovered, examined,
                                     last_wire>>
  /\ UNCHANGED <<storeVars, now, runs>>

\* send_followups lines 292-330: one iteration of `for record in
\* followup_candidates`, or the return
FollowupLoop ==
  /\ UNCHANGED <<logVars, finderVars, hookVars, procs>>
  /\ pc = "followups"
  /\ IF fu.idx > Len(fu.list)
     THEN IF mode = "followups_only"
          THEN Return /\ UNCHANGED storeVars
          ELSE /\ pc' = "summary"
               /\ stats' = [stats EXCEPT !.followups_sent = fu.sent_count]
               /\ UNCHANGED <<storeVars, mode, job_list, job_idx, job_id,
                              candidates, send, fu, n0, discovered, examined,
                              last_wire>>
     ELSE LET record == fu.list[fu.idx] IN
          \E success \in BOOLEAN :
            /\ IF success
               THEN /\ emails_sent' = mark_followup_sent(emails_sent, record.id, now)
                    /\ fu' = [fu EXCEPT !.idx = @ + 1, !.sent_count = @ + 1]
                    /\ last_wire' = "delay"
               ELSE /\ fu' = [fu EXCEPT !.idx = @ + 1]
                    /\ last_wire' = "failed"
                    /\ UNCHANGED emails_sent
            /\ UNCHANGED <<jobs, recruiters, daily_summary, pc, mode, job_list,
                           job_idx, job_id, candidates, stats, send,
                           n0, discovered, examined>>
  /\ UNCHANGED <<now, runs>>

\* main.py lines 202-221: save_daily_summary, send_daily_summary, return
SaveSummary ==
  /\ UNCHANGED <<logVars, finderVars, hookVars, procs>>
  /\ pc = "summary"
  /\ daily_summary' = save_daily_summary(daily_summary, stats, now)
  /\ Return
  /\ UNCHANGED <<jobs, recruiters, emails_sent, now, runs>>

\* main.py lines 266-267: python main.py --got-reply EMAIL
GotReply(email) ==
  /\ UNCHANGED <<job_log, rec_log, finderVars, hookVars, procs>>
  /\ pc = "idle"
  /\ emails_sent' = mark_got_reply(emails_sent, email)
  /\ reply_log' = reply_log \cup
                    {[email   |-> email,
                      matched |-> already_contacted(emails_sent, email)]}
  /\ UNCHANGED <<jobs, recruiters, daily_summary, now, runs, runVars>>

\* main.py lines 269-271: python main.py --followups
FollowupsOnly ==
  /\ UNCHANGED <<logVars, finderVars, hookVars, procs>>
  /\ pc = "idle"
  /\ pc' = "followups_start" /\ mode' = "followups_only"
  /\ n0' = Len(emails_sent)
  /\ UNCHANGED <<storeVars, now, runs, job_list, job_idx, job_id,
                 candidates, stats, send, fu, discovered, examined, last_wire>>

\* Time passes between two commands. Nothing the program reads holds a date
\* before the first email is logged, so the clock is started there.
AdvanceClock ==
  /\ UNCHANGED <<logVars, finderVars, hookVars, procs>>
  /\ pc = "idle" /\ now + DayStep <= MaxDay
  /\ emails_sent # <<>>
  /\ now' = now + DayStep
  /\ UNCHANGED <<storeVars, runs, runVars>>

Next ==
  \/ \E dry_run \in BOOLEAN : RunPipeline(dry_run)
  \/ JobLoop
  \/ SendConnect
  \/ SendLoop
  \/ FollowupStart
  \/ FollowupLoop
  \/ SaveSummary
  \/ AdvanceClock

\* python main.py and python main.py --test, run one after the other
Spec == Init /\ [][Next]_vars

\* A command that has started goes on: the program is sequential, every step
\* of it is a bounded computation or a network call with a timeout.
RunStep ==
  \/ JobLoop
  \/ SendConnect
  \/ SendLoop
  \/ FollowupStart
  \/ FollowupLoop
  \/ SaveSummary

\* The store a live run on day 0 leaves that scraped the Acme posting, found
\* addresses 1 and 2 and sent to both.
EarlierJobs == save_job(<<>>, "Acme", "backend intern", "u1", "scraper").rows

EarlierRecruiters ==
  save_recruiter(save_recruiter(<<>>, 1, "Acme", ContactOf(1)).rows,
                 1, "Acme", ContactOf(2)).rows

EarlierSent ==
  log_email_sent(log_email_sent(<<>>, 1, "Acme", 1,
                                <<"backend intern", "Acme">>, 0),
                 2, "Acme", 2, <<"backend intern", "Acme">>, 0)

\* One run has been made and has returned: a dry run whose scrape found
\* nothing (the store is still empty), or the live run above, the same day
\* or DayStep days ago.
InitLater ==
  /\ InitFind(DefaultConfig) /\ InitHook /\ InitProcs
  /\ job_log = <<>> /\ rec_log = <<>> /\ reply_log = {}
  /\ runs = 1
  /\ pc = "idle" /\ mode = "live"
  /\ job_list = <<>> /\ job_idx = 1 /\ job_id = 0
  /\ candidates = <<>>
  /\ stats = NoStats /\ send = NoSend /\ fu = NoFu
  /\ n0 = 0 /\ discovered = {} /\ examined = {} /\ last_wire = "none"
  /\ \/ /\ jobs = <<>> /\ recruiters = <<>> /\ emails_sent = <<>>
        /\ daily_summary = <<>> /\ now = 0
     \/ /\ jobs = EarlierJobs /\ recruiters = EarlierRecruiters
        /\ emails_sent = EarlierSent
        /\ daily_summary = save_daily_summary(<<>>, NoStats, 0)
        /\ now \in {0, DayStep}

\* the runs that follow, each step of a started run taken in the end
SpecLive == InitLater /\ [][Next]_vars /\ WF_vars(RunStep)

\* ------------------------------- main.py, under a cap below the limit
\* EMAIL_FINDER["max_per_company"] set below the daily limit, as in
\* config.py (3 and 35)
LowCap == 1

InitLowCap ==
  /\ InitStore /\ InitRun /\ InitHook /\ InitProcs
  /\ InitFind([DefaultConfig EXCEPT !.max_per_company = LowCap])

SpecLowCap == InitLowCap /\ [][Next]_vars

\* ------------------------------------------------- main.py, every command
\* python main.py, --test, --got-reply EMAIL and --followups, given one
\* after the other in any order, on the store an earlier run left
NextCommands ==
  \/ \E dry_run \in BOOLEAN : RunPipeline(dry_run)
  \/ JobLoop
  \/ SendConnect
  \/ SendLoop
  \/ FollowupStart
  \/ FollowupLoop
  \/ SaveSummary
  \/ AdvanceClock
  \/ \E email \in Emails : GotReply(email)
  \/ FollowupsOnly

SpecCommands == InitLater /\ [][NextCommands]_vars

\* --------------------------------- main.py, two processes on one store
\* Two `python main.py` processes run at once against the same database
\* file. Each statement that reads or writes the store is one step (sqlite
\* runs each in its own transaction: every function opens a connection,
\* commits and closes); the steps of the two processes interleave freely.
\* Each process gets one job from its scrape. The store is empty at the
\* start, so the follow-up phase of either run finds no row old enough and
\* is left out.

\* process p calls run_pipeline(); its scrape returns one job (lines 56-82)
ProcStart(p) ==
  /\ procs[p].pc = "idle"
  /\ \E job \in JobUniverse :
       procs' = [procs EXCEPT ![p] = [NoProc EXCEPT !.pc = "job", !.job = job]]
  /\ UNCHANGED <<storeVars, now, runs, runVars, logVars, finderVars, hookVars>>

\* lines 98-113: is_company_maxed, save_job, find_recruiter_emails
ProcJob(p) ==
  /\ procs[p].pc = "job"
  /\ LET job == procs[p].job IN
     IF is_company_maxed(emails_sent, job.company, cfg.max_per_company)
     THEN /\ procs' = [procs EXCEPT ![p].pc = "connect"]
          /\ UNCHANGED jobs
     ELSE LET saved == save_job(jobs, job.company, job.role, job.job_url,
                                "scraper") IN
          /\ jobs' = saved.rows
          /\ \E found \in FinderResults(job.company) :
               procs' = [procs EXCEPT ![p].pc = "contact",
                                      ![p].job_id = saved.id,
                                      ![p].found = found]
  /\ UNCHANGED <<recruiters, emails_sent, daily_summary, now, runs, runVars,
                 logVars, finderVars, hookVars>>

\* lines 117-133: the next contact, `if already_contacted(email): continue`
\* and the in-run count
ProcContact(p) ==
  /\ procs[p].pc = "contact"
  /\ LET me == procs[p] IN
     IF me.found = <<>>
     THEN procs' = [procs EXCEPT ![p].pc = "connect"]
     ELSE LET contact == Head(me.found) IN
          IF already_contacted(emails_sent, contact.email)
          THEN procs' = [procs EXCEPT
                           ![p].found = Tail(@),
                           ![p].seen = @ \cup {contact.email}]
          ELSE IF current_in_run(me.candidates, me.job.company)
                    >= cfg.max_per_company
          THEN procs' = [procs EXCEPT ![p].pc = "connect"]
          ELSE procs' = [procs EXCEPT
                           ![p].pc = "save",
                           ![p].seen = @ \cup {contact.email}]
  /\ UNCHANGED <<storeVars, now, runs, runVars, logVars, finderVars, hookVars>>

\* lines 135-166: save_recruiter, `if recruiter_id is None: continue`, the
\* candidate appended and the limit tested
ProcSave(p) ==
  /\ procs[p].pc = "save"
  /\ LET me      == procs[p]
         contact == Head(me.found)
         saved   == save_recruiter(recruiters, me.job_id, me.job.company,
                                   contact)
         queued  == Append(me.candidates,
                      [recruiter_id |-> saved.id, company |-> me.job.company,
                       role |-> me.job.role, email |-> contact.email])
     IN /\ recruiters' = saved.rows
        /\ IF saved.id = 0
           THEN procs' = [procs EXCEPT ![p].pc = "contact",
                                       ![p].found = Tail(@),
                                       ![p].refused = @ \cup {contact.email}]
           ELSE IF limit_reached(queued)
           THEN procs' = [procs EXCEPT ![p].pc = "connect",
                                       ![p].candidates = queued]
           ELSE procs' = [procs EXCEPT ![p].pc = "contact",
                                       ![p].found = Tail(@),
                                       ![p].candidates = queued]
  /\ UNCHANGED <<jobs, emails_sent, daily_summary, now, runs, runVars,
                 logVars, finderVars, hookVars>>

\* send_cold_emails lines 179-194: nothing to send, or the connection
ProcConnect(p) ==
  /\ procs[p].pc = "connect"
  /\ IF procs[p].candidates = <<>>
     THEN procs' = [procs EXCEPT ![p].pc = "summary"]
     ELSE \E connected \in BOOLEAN :
            procs' = [procs EXCEPT
                        ![p].pc = IF connected THEN "send" ELSE "summary"]
  /\ UNCHANGED <<storeVars, now, runs, runVars, logVars, finderVars, hookVars>>

\* send_cold_emails lines 196-213: the limit and the final duplicate check
ProcSendCheck(p) ==
  /\ procs[p].pc = "send"
  /\ LET me == procs[p] IN
     IF me.idx > Len(me.candidates) \/ me.sent_count >= DAILY_LIMIT
     THEN procs' = [procs EXCEPT ![p].pc = "summary"]
     ELSE IF SkipsCandidate(emails_sent, me.candidates[me.idx].email)
     THEN procs' = [procs EXCEPT ![p].idx = @ + 1]
     ELSE procs' = [procs EXCEPT ![p].pc = "transmit"]
  /\ UNCHANGED <<storeVars, now, runs, runVars, logVars, finderVars, hookVars>>

\* send_cold_emails lines 218-244: send_single_email, and log_email_sent
\* when it succeeded
ProcTransmit(p) ==
  /\ procs[p].pc = "transmit"
  /\ LET me == procs[p]
         candidate == me.candidates[me.idx]
     IN \E success \in BOOLEAN :
          IF success
          THEN /\ emails_sent' =
                    log_email_sent(emails_sent, candidate.recruiter_id,
                                   candidate.company, candidate.email,
                                   <<candidate.role, candidate.company>>, now)
               /\ procs' = [procs EXCEPT ![p].pc = "send",
                                         ![p].idx = @ + 1,
                                         ![p].sent_count = @ + 1]
          ELSE /\ procs' = [procs EXCEPT ![p].pc = "send", ![p].idx = @ + 1]
               /\ UNCHANGED emails_sent
  /\ UNCHANGED <<jobs, recruiters, daily_summary, now, runs, runVars,
                 logVars, finderVars, hookVars>>

\* main.py lines 202-221: save_daily_summary, and the process ends (its
\* candidate list is kept for the properties)
ProcSummary(p) ==
  /\ procs[p].pc = "summary"
  /\ daily_summary' = save_daily_summary(daily_summary, NoStats, now)
  /\ procs' = [procs EXCEPT ![p].pc = "done"]
  /\ UNCHANGED <<jobs, recruiters, emails_sent, now, runs, runVars,
                 logVars, finderVars, hookVars>>

NextTwoRuns ==
  \E p \in Procs :
    \/ ProcStart(p)
    \/ ProcJob(p)
    \/ ProcContact(p)
    \/ ProcSave(p)
    \/ ProcConnect(p)
    \/ ProcSendCheck(p)
    \/ ProcTransmit(p)
    \/ ProcSummary(p)

SpecTwoRuns == Init /\ [][NextTwoRuns]_vars

\* ------------------------------------------- emailer.py, called on its own
\* candidates one call is given at most
MaxCandidates == 3

\* the lists send_cold_emails can be handed: any addresses, repeats included
CandidateLists ==
  { [i \in 1..Len(s) |->
       [recruiter_id |-> s[i], company |-> "Acme", role |-> "backend intern",
        email |-> s[i]]] : s \in SeqsUpTo(Emails, MaxCandidates) }

\* send_cold_emails(candidates) is called
SenderCall ==
  /\ pc = "idle" /\ runs < MaxRuns
  /\ runs' = runs + 1
  /\ mode' = "sender"
  /\ \E list \in CandidateLists : candidates' = list
  /\ pc' = "send_start"
  /\ n0' = Len(emails_sent)
  /\ UNCHANGED <<storeVars, now, job_list, job_idx, job_id, stats, send, fu,
                 discovered, examined, last_wire, logVars, finderVars, hookVars, procs>>

\* send_cold_emails has returned to a caller that does nothing more
SenderReturn ==
  /\ pc = "followups_start" /\ mode = "sender"
  /\ Return
  /\ UNCHANGED <<storeVars, now, runs, logVars, finderVars, hookVars, procs>>

NextSender ==
  \/ SenderCall
  \/ SendConnect
  \/ SendLoop
  \/ SenderReturn

SpecSender == Init /\ [][NextSender]_vars

\* ------------------------------------------ database.py, called on its own
\* calls made on the store in one behaviour
MaxStoreCalls == 4

\* save_job(company, role, job_url, source) is called
SaveJob(company, role, job_url, source) ==
  /\ Len(job_log) + Len(rec_log) < MaxStoreCalls
  /\ LET saved == save_job(jobs, company, role, job_url, source) IN
       /\ jobs' = saved.rows
       /\ job_log' = Append(job_log,
                       [company |-> company, role |-> role,
                        job_url |-> job_url, source |-> source,
                        id |-> saved.id])
  /\ UNCHANGED <<recruiters, emails_sent, daily_summary, now, runs, runVars,
                 rec_log, reply_log, finderVars, hookVars, procs>>

\* save_recruiter(job_id, company, email, ..., find_method, verified) is called
SaveRecruiter(jid, company, contact) ==
  /\ Len(job_log) + Len(rec_log) < MaxStoreCalls
  /\ LET saved == save_recruiter(recruiters, jid, company, contact) IN
       /\ recruiters' = saved.rows
       /\ rec_log' = Append(rec_log,
                       [job_id |-> jid, company |-> company,
                        email |-> contact.email,
                        find_method |-> contact.find_method,
                        verified |-> contact.verified, id |-> saved.id])
  /\ UNCHANGED <<jobs, emails_sent, daily_summary, now, runs, runVars,
                 job_log, reply_log, finderVars, hookVars, procs>>

NextStore ==
  \/ \E company \in {"Acme", "ACME"}, job_url \in {"u1", "u2"},
        source \in {"github", "indeed"} :
        SaveJob(company, "backend intern", job_url, source)
  \/ \E company \in {"Acme", "Beta"}, email \in {1, 2},
        find_method \in {"apollo", "careers_page"} :
        SaveRecruiter(1, company,
                      [email |-> email, find_method |-> find_method,
                       verified |-> find_method = "apollo"])

SpecStore == Init /\ [][NextStore]_vars

\* ------------------- database.py, the emails_sent table and the follow-ups
\* rows of emails_sent in one behaviour
MaxEvents == 2

\* log_email_sent(...) is called (emailer.py line 222), at any time
LogEmailSent(email) ==
  /\ pc = "idle" /\ Len(emails_sent) < MaxEvents
  /\ emails_sent' = log_email_sent(emails_sent, email, "Acme", email,
                                   <<"backend intern", "Acme">>, now)
  /\ UNCHANGED <<jobs, recruiters, daily_summary, now, runs, runVars,
                 logVars, finderVars, hookVars, procs>>

\* mark_followup_sent(email_id) is called (emailer.py line 315)
MarkFollowupSent(email_id) ==
  /\ pc = "idle" /\ email_id \in 1..Len(emails_sent)
  /\ emails_sent[email_id].followup_sent = 0
  /\ emails_sent' = mark_followup_sent(emails_sent, email_id, now)
  /\ UNCHANGED <<jobs, recruiters, daily_summary, now, runs, runVars,
                 logVars, finderVars, hookVars, procs>>

\* a day passes
DayPasses ==
  /\ pc = "idle" /\ now < MaxDay
  /\ now' = now + 1
  /\ UNCHANGED <<storeVars, runs, runVars, logVars, finderVars, hookVars, procs>>

\* main.py line 270: get_followup_candidates(followup_after_days) is called
\* and has returned
GetFollowupCandidates ==
  /\ pc = "idle"
  /\ pc' = "followups" /\ mode' = "followups_only"
  /\ fu' = [list |-> get_followup_candidates(emails_sent,
                                             FOLLOWUP_AFTER_DAYS, now),
            idx |-> 1, sent_count |-> 0]
  /\ UNCHANGED <<storeVars, now, runs, job_list, job_idx, job_id, candidates,
                 stats, send, n0, discovered, examined, last_wire,
                 logVars, finderVars, hookVars, procs>>

\* the caller is done with the list
FollowupCandidatesDropped ==
  /\ pc = "followups" /\ mode = "followups_only"
  /\ Return
  /\ UNCHANGED <<storeVars, now, runs, logVars, finderVars, hookVars, procs>>

NextFollowup ==
  \/ \E email \in Emails : LogEmailSent(email)
  \/ \E email_id \in 1..MaxEvents : MarkFollowupSent(email_id)
  \/ \E email \in Emails : GotReply(email)
  \/ DayPasses
  \/ GetFollowupCandidates
  \/ FollowupCandidatesDropped

SpecFollowup == Init /\ [][NextFollowup]_vars

\* -------------------------------------- email_finder.py, one call of
\* find_recruiter_emails(company, domain)
\* lines 478-490: the call starts and invokes its first method
FinderCall ==
  /\ fpc = "idle"
  /\ fpc' = first_method(cfg)
  /\ calls' = <<first_method(cfg)>>
  /\ loc' = start_loc(first_method(cfg))
  /\ all_contacts' = <<>> /\ seen_emails' = {}
  /\ mlast' = NoMethod /\ fret' = <<>> /\ last_probe' = NoProbe
  /\ UNCHANGED <<cfg, storeVars, now, runs, runVars, logVars, hookVars, procs>>

\* find_via_apollo: its one request
ApolloRequest ==
  /\ fpc = "apollo" /\ loc.phase = "request"
  /\ \E outcome \in ApolloOutcomes : loc' = find_via_apollo(loc, cfg, outcome)
  /\ UNCHANGED <<cfg, fpc, all_contacts, seen_emails, fret, calls, mlast,
                 last_probe, storeVars, now, runs, runVars, logVars, hookVars, procs>>

\* find_via_careers_page: the GET of the next page
CareersPage ==
  /\ fpc = "careers_page" /\ loc.phase = "request"
  /\ \E outcome \in PageOutcomes : loc' = find_via_careers_page(loc, outcome)
  /\ UNCHANGED <<cfg, fpc, all_contacts, seen_emails, fret, calls, mlast,
                 last_probe, storeVars, now, runs, runVars, logVars, hookVars, procs>>

\* find_via_google_dork: the next search
DorkQuery ==
  /\ fpc = "google_dork" /\ loc.phase = "request"
  /\ \E outcome \in DorkOutcomes : loc' = find_via_google_dork(loc, outcome)
  /\ UNCHANGED <<cfg, fpc, all_contacts, seen_emails, fret, calls, mlast,
                 last_probe, storeVars, now, runs, runVars, logVars, hookVars, procs>>

\* find_via_asu_alumni: its one search
AlumniSearch ==
  /\ fpc = "asu_alumni" /\ loc.phase = "request"
  /\ \E outcome \in AlumniOutcomes :
       loc' = find_via_asu_alumni(loc, cfg, outcome)
  /\ UNCHANGED <<cfg, fpc, all_contacts, seen_emails, fret, calls, mlast,
                 last_probe, storeVars, now, runs, runVars, logVars, hookVars, procs>>

\* find_via_pattern_guess (called by find_recruiter_emails or by
\* find_via_asu_alumni): the probe of the next generic address
ProbeGeneric ==
  /\ fpc \in {"pattern_guess", "asu_alumni"} /\ loc.phase = "generic"
  /\ \E outcome \in ProbeOutcomes(cfg) :
       LET verified == smtp_verify_email(cfg, outcome)
           l2 == probe_generic(loc, verified)
       IN /\ loc' = l2
          /\ last_probe' = [email |-> GenericGuess[loc.idx],
                            outcome |-> outcome, verified |-> verified,
                            added |-> Len(l2.contacts) > Len(loc.contacts)]
  /\ UNCHANGED <<cfg, fpc, all_contacts, seen_emails, fret, calls, mlast,
                 storeVars, now, runs, runVars, logVars, hookVars, procs>>

\* find_via_pattern_guess with known_names: the probe of the next pattern of
\* the current name
ProbePersonal ==
  /\ fpc = "asu_alumni" /\ loc.phase = "personal"
  /\ \E outcome \in ProbeOutcomes(cfg) :
       LET verified == smtp_verify_email(cfg, outcome)
           l2 == probe_personal(loc, verified)
       IN /\ loc' = l2
          /\ last_probe' = [email |-> PersonalGuess(loc.names[loc.name_idx])[loc.idx],
                            outcome |-> outcome, verified |-> verified,
                            added |-> Len(l2.contacts) > Len(loc.contacts)]
  /\ UNCHANGED <<cfg, fpc, all_contacts, seen_emails, fret, calls, mlast,
                 storeVars, now, runs, runVars, logVars, hookVars, procs>>

\* find_recruiter_emails lines 489-516: the method returns (or raises),
\* add_contacts, and the early exit or the call of the next method
MethodReturn ==
  /\ fpc \in Methods /\ loc.phase = "done"
  /\ IF loc.raised
     THEN /\ fpc' = "raised"
          /\ UNCHANGED <<all_contacts, seen_emails, loc, fret, calls, mlast,
                         last_probe>>
     ELSE LET returned == method_result(fpc, loc)
              added == add_contacts(all_contacts, seen_emails, returned)
          IN /\ all_contacts' = added.all_contacts
             /\ seen_emails' = added.seen_emails
             /\ mlast' = [method |-> fpc, failed |-> loc.failed,
                          ok |-> loc.ok, returned |-> returned]
             /\ loc' = start_loc(next_method(fpc))
             /\ last_probe' = NoProbe
             /\ IF fpc = "asu_alumni" \/ enough(added.all_contacts)
                THEN /\ fpc' = "done"
                     /\ fret' = Take(added.all_contacts, MAX_PER_COMPANY)
                     /\ UNCHANGED calls
                ELSE /\ fpc' = next_method(fpc)
                     /\ calls' = Append(calls, next_method(fpc))
                     /\ UNCHANGED fret
  /\ UNCHANGED <<cfg, storeVars, now, runs, runVars, logVars, hookVars, procs>>

NextFinder ==
  \/ FinderCall
  \/ ApolloRequest
  \/ CareersPage
  \/ DorkQuery
  \/ ProbeGeneric
  \/ ProbePersonal
  \/ AlumniSearch
  \/ MethodReturn

\* every configuration the program can run under
InitFinder ==
  /\ InitStore /\ InitRun /\ InitHook /\ InitProcs
  /\ \E c \in Configs : InitFind(c)

SpecFinder == InitFinder /\ [][NextFinder]_vars

\* ------------------------------- main.py on the list the call returned
\* run_pipeline lines 117-123: the fields read from a returned contact
found_contact(contact) ==
  [email |-> contact.email, find_method |-> contact.method,
   verified |-> contact.verified]

\* the job run_pipeline called find_recruiter_emails for, and its job_id
FoundJob == [company |-> "Acme", role |-> "backend intern", job_url |-> "u1"]

\* run_pipeline lines 112-166 for the list find_recruiter_emails returned
SaveFound ==
  /\ fpc = "done"
  /\ fpc' = "saved"
  /\ LET found == [i \in 1..Len(fret) |-> found_contact(fret[i])]
         done  == examine_contacts(recruiters, candidates, emails_sent,
                                   FoundJob, 1, found)
     IN /\ recruiters' = done.recruiters
        /\ candidates' = done.candidates
  /\ UNCHANGED <<jobs, emails_sent, daily_summary, now, runs, pc, mode,
                 job_list, job_idx, job_id, stats, send, fu, n0, discovered,
                 examined, last_wire, logVars, cfg, all_contacts,
                 seen_emails, loc, fret, calls, mlast, last_probe,
                 hookVars, procs>>

NextDiscovery ==
  \/ NextFinder
  \/ SaveFound

SpecDiscovery == InitFinder /\ [][NextDiscovery]_vars

\* ------------------------------------ templates.py, called on its own
\* pick_achievement_hook(job_description, role) is called
PickAchievementHook ==
  /\ hook_ret = NoHook
  /\ hook_ret' = [fn  |-> "pick_achievement_hook",
                  key |-> pick_achievement_hook(hook_args.job_description,
                                                hook_args.role)]
  /\ UNCHANGED <<hook_args, storeVars, now, runs, runVars, logVars,
                 finderVars, procs>>

\* main_email(..., role=role, job_description=job_description) is called
MainEmail ==
  /\ hook_ret = NoHook
  /\ hook_ret' = [fn  |-> "main_email",
                  key |-> main_email(hook_args.job_description,
                                     hook_args.role)]
  /\ UNCHANGED <<hook_args, storeVars, now, runs, runVars, logVars,
                 finderVars, procs>>

NextHook ==
  \/ PickAchievementHook
  \/ MainEmail

\* any description and any role
InitHookSpec ==
  /\ InitStore /\ InitRun /\ InitFind(DefaultConfig) /\ InitProcs
  /\ hook_args \in [job_description : Descriptions, role : Roles]
  /\ hook_ret = NoHook

SpecHook == InitHookSpec /\ [][NextHook]_vars

\* ================================================================ properties
\* the rows of emails_sent that existed when the current run started
SentAtStart == SubSeq(emails_sent, 1, n0)

\* the company had reached the cap in the store when the current run started
MaxedAtStart(c) == company_contact_count(SentAtStart, c) >= MAX_PER_COMPANY

\* jobs among the first n of the scrape whose company was maxed at the start
MaxedJobs(n) ==
  Cardinality({ i \in 1..n : MaxedAtStart(job_list[i].company) })

\* what a run leaves alone for a company that was maxed when it started:
\* no discovery, no candidate, no new emails_sent row
MaxedLeftAlone(c) ==
  /\ \A d \in discovered : Lower(d) # Lower(c)
  /\ \A i \in 1..Len(candidates) : Lower(candidates[i].company) # Lower(c)
  /\ \A i \in (n0 + 1)..Len(emails_sent) :
       Lower(emails_sent[i].company) # Lower(c)

\* C1: in every reachable store state, for every company, the number of
\* distinct addresses in emails_sent rows of that company (compared without
\* case) is at most the per-company cap.
C1_CapNeverExceeded ==
  \A c \in Companies : company_contact_count(emails_sent, c) <= MAX_PER_COMPANY

\* C2 as stated: once the job loop of a run is over, every job of the scrape
\* whose company was at the cap when the run started has been counted in
\* companies_skipped, and the company was left alone.
C2_EveryMaxedJobCounted ==
  /\ \A c \in Companies : MaxedAtStart(c) => MaxedLeftAlone(c)
  /\ pc = "send_start" => stats.companies_skipped = MaxedJobs(Len(job_list))

\* C2, amended: in every run, a company that was at the cap when the run
\* started is left alone (no discovery, no candidate, no new emails_sent row),
\* and companies_skipped counts exactly the jobs of such companies among the
\* jobs the loop has gone through; the jobs after the daily-limit stop are
\* neither examined nor counted.
C2_MaxedCompanySkipped ==
  /\ \A c \in Companies : MaxedAtStart(c) => MaxedLeftAlone(c)
  /\ pc # "idle" => stats.companies_skipped = MaxedJobs(job_idx - 1)

\* a run has skipped a maxed company's job and discovered for another company
C2_Witness ==
  /\ pc = "send_start"
  /\ stats.companies_skipped >= 1
  /\ discovered # {}
  /\ \E c \in Companies : MaxedAtStart(c)

\* C3: no candidate of a run carries an address that had an emails_sent row
\* (of any date, the exact address) when the run examined it.
C3_NeverEnqueueContacted ==
  \A i \in 1..Len(candidates) :
    ~ already_contacted(SentAtStart, candidates[i].email)

\* discovery has returned an address that was emailed in an earlier run, next
\* to one that was queued
C3_Witness ==
  /\ pc = "send_start"
  /\ candidates # <<>>
  /\ \E e \in examined : already_contacted(SentAtStart, e)

\* C4: no two emails_sent rows have the same recruiter_email, whatever
\* candidate lists send_cold_emails is given (lists that repeat an address
\* included) and whichever sends fail.
C4_NeverSendsTwice ==
  \A i, k \in 1..Len(emails_sent) :
    i # k => emails_sent[i].recruiter_email # emails_sent[k].recruiter_email

\* one list names the same address three times: the first send failed, the
\* second went out, the third was passed over
C4_Witness ==
  /\ pc = "send" /\ mode = "sender"
  /\ Len(candidates) = 3 /\ send.idx = 4
  /\ candidates[1].email = candidates[2].email
  /\ candidates[2].email = candidates[3].email
  /\ send.errors # <<>> /\ send.sent_count = 1

SameJobKey(a, b) ==
  a.company = b.company /\ a.role = b.role /\ a.job_url = b.job_url

\* the first save_job call made with the key of call i
FirstJobCall(i) ==
  CHOOSE k \in 1..i :
    /\ SameJobKey(job_log[k], job_log[i])
    /\ \A m \in 1..(k - 1) : ~ SameJobKey(job_log[m], job_log[i])

\* C5: no two jobs rows share (company, role, job_url); every save_job call
\* returns the id its first call with that key returned, and the one row with
\* that key is the row the first call wrote (later calls, with the same or
\* another source, change nothing).
C5_SaveJobIdempotent ==
  /\ \A i, k \in 1..Len(jobs) : i # k => ~ SameJobKey(jobs[i], jobs[k])
  /\ \A i \in 1..Len(job_log) :
       LET first == job_log[FirstJobCall(i)] IN
       /\ job_log[i].id = first.id
       /\ first.id \in 1..Len(jobs)
       /\ jobs[first.id] = [id |-> first.id, company |-> first.company,
                            role |-> first.role, job_url |-> first.job_url,
                            source |-> first.source]

\* save_job was called twice with one key and two sources
C5_Witness ==
  \E i, k \in 1..Len(job_log) :
    /\ i < k /\ SameJobKey(job_log[i], job_log[k])
    /\ job_log[i].source # job_log[k].source
    /\ Len(jobs) >= 2

\* the first save_recruiter call made with the address of call i
FirstRecruiterCall(i) ==
  CHOOSE k \in 1..i :
    /\ rec_log[k].email = rec_log[i].email
    /\ \A m \in 1..(k - 1) : rec_log[m].email # rec_log[i].email

\* C6: no two recruiters rows share an email, across companies; the first
\* save_recruiter call for an address writes the row and returns its id,
\* every later call for it returns None (0) and leaves the row as the first
\* call wrote it.
C6_ContactEmailUnique ==
  /\ \A i, k \in 1..Len(recruiters) :
       i # k => recruiters[i].email # recruiters[k].email
  /\ \A i \in 1..Len(rec_log) :
       LET first == rec_log[FirstRecruiterCall(i)] IN
       /\ first.id \in 1..Len(recruiters)
       /\ FirstRecruiterCall(i) # i => rec_log[i].id = 0
       /\ recruiters[first.id] =
            [id |-> first.id, job_id |-> first.job_id,
             company |-> first.company, email |-> first.email,
             find_method |-> first.find_method, verified |-> first.verified]

\* an address was saved for one company and then offered for another
C6_Witness ==
  \E i, k \in 1..Len(rec_log) :
    /\ i < k /\ rec_log[i].email = rec_log[k].email
    /\ rec_log[i].company # rec_log[k].company
    /\ rec_log[k].id = 0

IsPrefix(s, t) == Len(s) <= Len(t) /\ SubSeq(t, 1, Len(s)) = s

NoRepeatedEmail(s) ==
  \A i, k \in 1..Len(s) : i # k => s[i].email # s[k].email

\* position p of list s holds the first contact of s with its address
FirstOfItsEmail(s, p) == \A q \in 1..(p - 1) : s[q].email # s[p].email

\* what a returning method does to all_contacts: the contacts held stay as
\* they are, every address it returned is held afterwards, and a contact that
\* is new is the first one it returned for an address not held before
AddedInOrder(before, after, returned) ==
  /\ IsPrefix(before, after)
  /\ \A p \in 1..Len(returned) :
       \E i \in 1..Len(after) : after[i].email = returned[p].email
  /\ \A i \in (Len(before) + 1)..Len(after) :
       /\ \A k \in 1..Len(before) : before[k].email # after[i].email
       /\ \E p \in 1..Len(returned) :
            returned[p] = after[i] /\ FirstOfItsEmail(returned, p)

\* C7: all_contacts never holds an address twice; each method's return leaves
\* the contacts of earlier methods in place and adds, for every address not
\* held yet, the first contact the method returned for it; the list returned
\* is the first MAX_PER_COMPANY of them.
C7_UniqueEarliestWins ==
  /\ [](/\ NoRepeatedEmail(all_contacts)
        /\ fpc = "done" => /\ fret = Take(all_contacts, MAX_PER_COMPANY)
                           /\ Len(fret) <= MAX_PER_COMPANY
                           /\ NoRepeatedEmail(fret))
  /\ [][mlast' # mlast /\ fpc # "idle"
          => AddedInOrder(all_contacts, all_contacts', mlast'.returned)]_vars

\* a method returned a list that names an address twice, the address being
\* held already from an earlier method
C7_Witness ==
  /\ fpc = "done"
  /\ ~ NoRepeatedEmail(mlast.returned)
  /\ \E i \in 1..Len(all_contacts) :
       /\ all_contacts[i].email = mlast.returned[1].email
       /\ all_contacts[i].method # mlast.returned[1].method

\* the methods find_recruiter_emails goes through under a configuration
MethodOrder(c) ==
  IF c.apollo_key
  THEN <<"apollo", "careers_page", "google_dork", "pattern_guess",
         "asu_alumni">>
  ELSE <<"careers_page", "google_dork", "pattern_guess", "asu_alumni">>

\* C8: the methods called are an initial part of the fixed order apollo (with
\* a key), careers_page, google_dork, pattern_guess, asu_alumni; a method runs
\* only while fewer than MAX_PER_COMPANY addresses are held; and the call
\* ends before the last method only with MAX_PER_COMPANY or more held.
C8_FixedOrderEarlyExit ==
  /\ IsPrefix(calls, MethodOrder(cfg))
  /\ fpc \in Methods =>
       /\ fpc = calls[Len(calls)]
       /\ Len(all_contacts) < MAX_PER_COMPANY
  /\ fpc = "done" =>
       /\ mlast.method = calls[Len(calls)]
       /\ Len(all_contacts) >= MAX_PER_COMPANY \/ calls = MethodOrder(cfg)

\* apollo alone returned MAX_PER_COMPANY distinct contacts and nothing else
\* was called
C8_Witness ==
  /\ fpc = "done" /\ calls = <<"apollo">>
  /\ Len(fret) = MAX_PER_COMPANY

\* C9 as stated: a method in which a request failed returns no contact.
C9_FailedMethodReturnsNothing ==
  /\ fpc # "raised"
  /\ mlast.failed => mlast.returned = <<>>
  /\ fpc = "done" /\ Len(all_contacts) < MAX_PER_COMPANY
       => calls = MethodOrder(cfg)

\* C9, amended: no exception leaves find_recruiter_emails; a method none of
\* whose requests completed (every one raised, or the method is switched off)
\* returns no contact; without a key no contact comes from apollo; and unless
\* the cap was reached every later method is still called, in order.
C9_NoFailureIsFatal ==
  /\ fpc # "raised"
  /\ ~ mlast.ok /\ mlast.method # "pattern_guess" => mlast.returned = <<>>
  /\ ~ cfg.apollo_key =>
       \A i \in 1..Len(all_contacts) : all_contacts[i].method # "apollo"
  /\ fpc = "done" /\ Len(all_contacts) < MAX_PER_COMPANY
       => calls = MethodOrder(cfg)

\* every Google search raised: google_dork returned nothing and
\* pattern_guess was called next
C9_Witness ==
  /\ fpc = "pattern_guess" /\ mlast.method = "google_dork"
  /\ mlast.failed /\ ~ mlast.ok /\ mlast.returned = <<>>

VerifiedMethods == {"apollo", "pattern_generic", "pattern_personal"}

VerifiedByMethod(s) ==
  \A i \in 1..Len(s) :
    /\ s[i].verified <=> s[i].method \in VerifiedMethods
    /\ s[i].method \in {"careers_page", "google_dork"} => ~ s[i].verified

AppendedByPositiveProbe ==
  \A i \in (Len(loc.contacts) + 1)..Len(loc'.contacts) :
    loc'.contacts[i].method \in {"pattern_generic", "pattern_personal"}
      => /\ last_probe'.email = loc'.contacts[i].email
         /\ last_probe'.outcome = "250"
         /\ last_probe'.verified = "True"

TakenFromMethod ==
  \A i \in (Len(all_contacts) + 1)..Len(all_contacts') :
    \E k \in 1..Len(loc.contacts) : loc.contacts[k] = all_contacts'[i]

C11_VerifiedMeansDirectoryOrProbe ==
  /\ [](/\ VerifiedByMethod(loc.contacts)
        /\ VerifiedByMethod(all_contacts)
        /\ VerifiedByMethod(fret)
        /\ IsPrefix(fret, all_contacts)
        /\ \A r \in 1..Len(recruiters) :
             /\ \E i \in 1..Len(fret) :
                  found_contact(fret[i]) =
                    [email |-> recruiters[r].email,
                     find_method |-> recruiters[r].find_method,
                     verified |-> recruiters[r].verified]
             /\ recruiters[r].verified
                  <=> recruiters[r].find_method \in VerifiedMethods)
  /\ [][(fpc' = fpc /\ fpc \in Methods) => AppendedByPositiveProbe]_vars
  /\ [][(fpc \in Methods /\ Len(all_contacts') > Len(all_contacts))
          => TakenFromMethod]_vars

\* a page-scrape contact and a probed personal address were returned and
\* written to the recruiters table, the first unverified, the second verified
C11_Witness ==
  /\ fpc = "saved" /\ Len(recruiters) = 2
  /\ recruiters[1].find_method = "careers_page" /\ ~ recruiters[1].verified
  /\ recruiters[2].find_method = "pattern_personal" /\ recruiters[2].verified

\* C12: the list get_followup_candidates returns holds each row of
\* emails_sent with followup_sent = 0, got_reply = 0 and date_sent earlier
\* than now minus followup_after_days, once and as stored, and no other row;
\* with 5 days, an untouched event sent 6 days ago is in it, and an event
\* sent 3 days ago, a replied event and a followed-up event are not.
Returned(i) == \E k \in 1..Len(fu.list) : fu.list[k].id = i

C12_FollowupCandidatesExact ==
  (pc = "followups" /\ mode = "followups_only") =>
    /\ \A k \in 1..Len(fu.list) :
         /\ fu.list[k].id \in 1..Len(emails_sent)
         /\ fu.list[k] = emails_sent[fu.list[k].id]
         /\ \A m \in 1..Len(fu.list) : fu.list[m].id = fu.list[k].id => m = k
    /\ \A i \in 1..Len(emails_sent) :
         /\ Returned(i) <=>
              /\ emails_sent[i].followup_sent = 0
              /\ emails_sent[i].got_reply = 0
              /\ emails_sent[i].date_sent < now - FOLLOWUP_AFTER_DAYS
         /\ FOLLOWUP_AFTER_DAYS = 5 =>
              /\ ( /\ now - emails_sent[i].date_sent = 6
                   /\ emails_sent[i].followup_sent = 0
                   /\ emails_sent[i].got_reply = 0 ) => Returned(i)
              /\ now - emails_sent[i].date_sent = 3 => ~ Returned(i)
              /\ emails_sent[i].got_reply = 1 => ~ Returned(i)
              /\ emails_sent[i].followup_sent = 1 => ~ Returned(i)

\* asked on day 6 with one event of day 0 and one of day 3, both untouched:
\* the first is returned, the second is not
C12_Witness ==
  /\ pc = "followups" /\ mode = "followups_only" /\ now = 6
  /\ Len(emails_sent) = 2
  /\ emails_sent[1].date_sent = 0 /\ emails_sent[2].date_sent = 3
  /\ emails_sent[2].followup_sent = 0 /\ emails_sent[2].got_reply = 0
  /\ Len(fu.list) = 1 /\ fu.list[1].id = 1

\* the keyword occurs in the text at position i, letter case aside
OccursIgnoringCaseAt(kw, text, i) ==
  /\ i + Len(kw) - 1 <= Len(text)
  /\ \A j \in 1..Len(kw) : lower_char(text[i + j - 1]) = lower_char(kw[j])

\* group g has a keyword that occurs in the combined text of the call
GroupMatches(g) ==
  LET combined == hook_args.job_description \o <<" ">> \o hook_args.role
  IN \E k \in 1..Len(ACHIEVEMENTS[g].keywords) :
       \E i \in 1..Len(combined) :
         OccursIgnoringCaseAt(ACHIEVEMENTS[g].keywords[k], combined, i)

\* C13: the key returned is that of the first group, in the order ml_ai,
\* cloud_devops, frontend, backend, with a keyword occurring in the combined
\* text whatever the letter case, and "default" when no group has one; both
\* functions return the same key for the same texts; and the description
\* "AWS Docker Kubernetes backend microservices API" with the role "Backend
\* Engineer Intern" yields cloud_devops.
C13_FirstMatchingGroup ==
  hook_ret.fn # "none" =>
    /\ [g \in 1..Len(ACHIEVEMENTS) |-> ACHIEVEMENTS[g].key]
         = <<"ml_ai", "cloud_devops", "frontend", "backend">>
    /\ \A g \in 1..Len(ACHIEVEMENTS) :
         hook_ret.key = ACHIEVEMENTS[g].key
           <=> /\ GroupMatches(g)
               /\ \A h \in 1..(g - 1) : ~ GroupMatches(h)
    /\ hook_ret.key = "default"
         <=> \A g \in 1..Len(ACHIEVEMENTS) : ~ GroupMatches(g)
    /\ hook_ret.key = pick_achievement_hook(hook_args.job_description,
                                            hook_args.role)
    /\ ( /\ hook_args.job_description = AwsDescription
         /\ hook_args.role = BackendRole ) => hook_ret.key = "cloud_devops"

\* main_email was called with the cloud description and the backend role,
\* which has keywords of cloud_devops and of backend, and chose cloud_devops
C13_Witness ==
  /\ hook_ret.fn = "main_email"
  /\ hook_args.job_description = AwsDescription
  /\ hook_args.role = BackendRole
  /\ GroupMatches(2) /\ GroupMatches(4)
  /\ hook_ret.key = "cloud_devops"

\* C14: for the description "React TypeScript TailwindCSS frontend UI" with
\* the role "Frontend React Intern", and for the description "React,
\* TypeScript, Tailwind", the key selected is frontend.
C14_FrontendPostingGetsFrontend ==
  ( /\ hook_ret.fn # "none"
    /\ \/ /\ hook_args.job_description = ReactDescription
          /\ hook_args.role = FrontendRole
       \/ hook_args.job_description = ReactList )
  => hook_ret.key = "frontend"

\* C15: the candidate list never holds more than DAILY_LIMIT entries; a run
\* logs at most DAILY_LIMIT cold emails; and from the moment the list holds
\* DAILY_LIMIT entries the job loop is left at its next step, which reads no
\* further job: no job row and no recruiter row is written, no company is
\* counted as skipped, find_recruiter_emails is not called, no candidate is
\* added.
C15_DailyLimitStopsTheRun ==
  /\ [](/\ Len(candidates) <= DAILY_LIMIT
        /\ send.sent_count <= DAILY_LIMIT
        /\ Len(send.contacts_sent) = send.sent_count
        /\ (pc # "idle" /\ mode = "live")
             => Len(emails_sent) - n0 <= DAILY_LIMIT)
  /\ [][(pc = "jobs" /\ Len(candidates) >= DAILY_LIMIT)
          => /\ pc' # "jobs"
             /\ jobs' = jobs /\ recruiters' = recruiters
             /\ emails_sent' = emails_sent
             /\ discovered' \subseteq discovered
             /\ examined' \subseteq examined
             /\ pc' # "idle" => /\ candidates' = candidates
                                /\ stats' = stats
                                /\ job_idx' = job_idx]_vars

\* the list was filled by the first of two scraped jobs: the run has gone on
\* to send, and the second job was neither saved nor searched
C15_Witness ==
  /\ pc = "send" /\ mode = "live" /\ runs = 1
  /\ Len(candidates) = DAILY_LIMIT
  /\ Len(job_list) = 2 /\ job_idx = 2
  /\ Len(jobs) = 1 /\ stats.companies_skipped = 0
  /\ send.sent_count = DAILY_LIMIT

\* messages to recruiters logged with the date `day`: cold emails
\* (date_sent) and follow-ups (followup_date)
SentOn(day) ==
  Cardinality({ i \in 1..Len(emails_sent) : emails_sent[i].date_sent = day })
  + Cardinality({ i \in 1..Len(emails_sent) :
                    /\ emails_sent[i].followup_sent = 1
                    /\ emails_sent[i].followup_date = day })

\* C16: on no day are more than DAILY_LIMIT messages, cold emails and
\* follow-ups together, transmitted to recruiters, however many runs the day
\* has.
C16_HardCapPerDay ==
  \A day \in 0..MaxDay : SentOn(day) <= DAILY_LIMIT

\* C17: when find_recruiter_emails raises for a job, the step that handles
\* it adds the error to the run's stats and changes nothing else but what
\* the job's own save_job wrote: no recruiter row, no candidate, no email
\* found; the loop stays in the job loop at the next job of the scrape, in
\* the state an empty discovery result would have left.
C17_FinderFailureSkipsOneJob ==
  [][(pc = "jobs" /\ stats'.errors = Append(stats.errors, "Email finder failed"))
       => LET job   == job_list[job_idx]
              saved == save_job(jobs, job.company, job.role, job.job_url,
                                "scraper")
          IN /\ ~ is_company_maxed(emails_sent, job.company, MAX_PER_COMPANY)
             /\ jobs' = saved.rows /\ job_id' = saved.id
             /\ recruiters' = recruiters /\ candidates' = candidates
             /\ emails_sent' = emails_sent /\ daily_summary' = daily_summary
             /\ stats' = [stats EXCEPT !.errors = Append(@, "Email finder failed")]
             /\ pc' = "jobs" /\ job_idx' = job_idx + 1
             /\ job_list' = job_list /\ mode' = mode]_vars

\* discovery raised for the first of two jobs and the second job was
\* processed: its contacts are queued
C17_Witness ==
  /\ pc = "jobs" /\ job_idx = 3 /\ Len(job_list) = 2
  /\ stats.errors = <<"Email finder failed">>
  /\ Len(jobs) = 2 /\ Len(candidates) = 1
  /\ candidates[1].company = job_list[2].company
  /\ stats.emails_found = 1

\* C18 as stated: every run, live or dry, returns, and the step that returns
\* from it has appended one row to daily_summary.
C18_EveryRunWritesOneSummary ==
  /\ (pc # "idle") ~> (pc = "idle")
  /\ [][(pc # "idle" /\ pc' = "idle")
          => Len(daily_summary') = Len(daily_summary) + 1]_vars

\* C18: every run returns; daily_summary is written by no step but the one
\* that returns from a run; a live run returns with exactly one row appended,
\* whatever failed in it (the scrape, discovery, the connection to Gmail,
\* every send); a dry run returns with daily_summary as it was.
C18_LiveRunWritesOneSummary ==
  /\ (pc # "idle") ~> (pc = "idle")
  /\ [](Len(daily_summary) <= runs)
  /\ [][pc' # "idle" => daily_summary' = daily_summary]_vars
  /\ [][(pc # "idle" /\ pc' = "idle" /\ mode = "live")
          => /\ Len(daily_summary') = Len(daily_summary) + 1
             /\ SubSeq(daily_summary', 1, Len(daily_summary)) = daily_summary]_vars
  /\ [][(pc # "idle" /\ pc' = "idle" /\ mode = "dry")
          => daily_summary' = daily_summary]_vars

\* a live run that found new contacts and sent to none of them (Gmail
\* refused the connection, or every send failed) has returned with its row
\* written
C18_Witness ==
  /\ pc = "idle" /\ runs = 2 /\ Len(daily_summary) = 2
  /\ emails_sent = EarlierSent /\ Len(recruiters) > Len(EarlierRecruiters)

\* C19: when the transmission to one candidate fails, send_cold_emails logs no
\* row in emails_sent for it, counts it neither in sent_count nor in
\* contacts_sent, appends one entry to errors and goes on with the next
\* candidate; when the batch has returned, the sent_count it returned is the
\* number of emails_sent rows the batch created.
C19_FailedSendIsNotLogged ==
  /\ [][(/\ pc = "send" /\ send.idx <= Len(candidates)
         /\ send.sent_count < DAILY_LIMIT
         /\ ~SkipsCandidate(emails_sent, candidates[send.idx].email)
         /\ send'.idx = send.idx + 1
         /\ last_wire' = "failed")
        => /\ emails_sent' = emails_sent
           /\ send'.sent_count = send.sent_count
           /\ send'.contacts_sent = send.contacts_sent
           /\ Len(send'.errors) = Len(send.errors) + 1
           /\ pc' = "send"]_vars
  /\ [](pc = "send" => send.sent_count = Len(emails_sent) - n0)
  /\ [](pc = "followups_start" /\ mode = "sender"
          => stats.emails_sent = Len(emails_sent) - n0)

\* a batch has returned in which one send failed and a later one succeeded
C19_Witness ==
  /\ pc = "followups_start" /\ mode = "sender"
  /\ Len(send.errors) = 1 /\ send.sent_count = 1
  /\ last_wire \in {"delay", "sent"}
  /\ Len(emails_sent) = n0 + 1

\* C20: a dry run, run_pipeline(dry_run=True), performs discovery but not
\* sending: from its start to its return no message is transmitted and the
\* emails_sent table is left as it was (no row logged, no follow-up or reply
\* flag set), while every job of a company that is not maxed is handed to
\* discovery and has its row in jobs, and every candidate the run lists has
\* its row in recruiters.
C20_DryRunDiscoversWithoutSending ==
  /\ [][(mode = "dry" \/ mode' = "dry")
        => /\ emails_sent' = emails_sent
           /\ last_wire' = "none"
           /\ pc' \in {"jobs", "idle"}]_vars
  /\ [][(/\ mode = "dry" /\ pc = "jobs" /\ job_idx <= Len(job_list)
         /\ ~limit_reached(candidates)
         /\ ~is_company_maxed(emails_sent, job_list[job_idx].company,
                              MAX_PER_COMPANY))
        => /\ discovered' = discovered \cup {job_list[job_idx].company}
           /\ \E i \in 1..Len(jobs') :
                JobKeyMatches(jobs'[i], job_list[job_idx].company,
                              job_list[job_idx].role, job_list[job_idx].job_url)
           /\ job_idx' = job_idx + 1]_vars
  /\ [](mode = "dry"
          => \A i \in 1..Len(candidates) :
               \E k \in 1..Len(recruiters) :
                 /\ recruiters[k].id = candidates[i].recruiter_id
                 /\ recruiters[k].email = candidates[i].email)

\* the first command given is a dry run; its job loop is over with
\* candidates listed, jobs and recruiters saved and nothing in emails_sent
C20_Witness ==
  /\ mode = "dry" /\ pc = "jobs" /\ runs = 1
  /\ job_idx > Len(job_list)
  /\ candidates # <<>> /\ jobs # <<>> /\ recruiters # <<>>
  /\ emails_sent = <<>> /\ last_wire = "none"

\* a step in which a message to a recruiter is handed to the transport:
\* send_single_email called by send_cold_emails or by send_followups
Transmits ==
  \/ /\ pc = "send" /\ send.idx <= Len(candidates)
     /\ send.sent_count < DAILY_LIMIT
     /\ ~SkipsCandidate(emails_sent, candidates[send.idx].email)
     /\ send'.idx = send.idx + 1
  \/ /\ pc = "followups" /\ fu.idx <= Len(fu.list)
     /\ fu'.idx = fu.idx + 1

\* C21: between two successive transmissions of a run (cold email to cold
\* email, cold email to first follow-up, follow-up to follow-up, and after a
\* failed attempt too) random_delay() runs before the later one: a message is
\* handed to the transport only when nothing was transmitted before in the
\* run or the last thing that happened on the wire was the delay.
C21_DelayBetweenTransmissions ==
  [][Transmits => last_wire \in {"none", "delay"}]_vars

\* a step in which send_followups hands a follow-up to the transport
\* (emailer.py lines 310-312); the record it is for is fu.list[fu.idx]
TransmitsFollowup ==
  /\ pc = "followups" /\ fu.idx <= Len(fu.list)
  /\ fu'.idx = fu.idx + 1

\* addresses mark_got_reply was called with / with a row to mark
RepliedAddresses == { r.email : r \in reply_log }
RepliedAndMarked == { r.email : r \in { q \in reply_log : q.matched } }

KeptRows(rows_, later) ==
  /\ Len(later) >= Len(rows_)
  /\ SubSeq(later, 1, Len(rows_)) = rows_

\* row b is row a with, at most, flags set that were not set
OnlyFlagsSet(a, b) ==
  /\ [b EXCEPT !.followup_sent = a.followup_sent,
               !.followup_date = a.followup_date,
               !.got_reply = a.got_reply] = a
  /\ b.followup_sent \in {a.followup_sent, 1}
  /\ b.got_reply \in {a.got_reply, 1}
  /\ a.followup_sent = 1 => b.followup_date = a.followup_date
  /\ a.followup_sent = b.followup_sent => b.followup_date = a.followup_date

\* C23: the store only grows and its rows keep their identity: no step
\* removes a row of jobs, recruiters or emails_sent; a jobs or recruiters row
\* is never changed; an emails_sent row is changed only in followup_sent,
\* followup_date and got_reply, each going from unset to set and never back.
C23_StoreOnlyGrows ==
  [][/\ KeptRows(jobs, jobs')
     /\ KeptRows(recruiters, recruiters')
     /\ Len(emails_sent') >= Len(emails_sent)
     /\ \A i \in 1..Len(emails_sent) :
          OnlyFlagsSet(emails_sent[i], emails_sent'[i])]_vars

\* a later run has added jobs, recruiters and emails to those of the earlier
\* run, whose two emails have since been marked: one followed up, one replied
C23_Witness ==
  /\ Len(jobs) > Len(EarlierJobs) /\ Len(recruiters) > Len(EarlierRecruiters)
  /\ Len(emails_sent) > Len(EarlierSent)
  /\ \E i, k \in 1..Len(EarlierSent) :
       /\ emails_sent[i].followup_sent = 1 /\ emails_sent[i].got_reply = 0
       /\ emails_sent[k].got_reply = 1 /\ emails_sent[k].followup_sent = 0

\* send_cold_emails was given candidates and could not open its connection
ConnectionRefused ==
  /\ pc = "send_start" /\ candidates # <<>>
  /\ pc' # "send"

\* C24: when the transport cannot be authenticated at the start of the send
\* phase only the sending is aborted: send_cold_emails returns 0 sent and
\* the error text, no row is logged in emails_sent, the jobs and recruiters
\* the discovery phase saved stay in the store (a recruiters row for every
\* candidate), and run_pipeline goes on to the follow-ups and returns after
\* the summary.
C24_FailedLoginAbortsOnlyTheSending ==
  /\ [][ConnectionRefused
         => /\ pc' = "followups_start" /\ mode' = mode
            /\ stats'.emails_sent = 0 /\ send'.sent_count = 0
            /\ send'.contacts_sent = <<>>
            /\ Len(stats'.errors) = Len(stats.errors) + 1
            /\ emails_sent' = emails_sent /\ Len(emails_sent') = n0
            /\ jobs' = jobs /\ recruiters' = recruiters
            /\ \A i \in 1..Len(candidates) :
                 \E k \in 1..Len(recruiters') :
                   recruiters'[k].email = candidates[i].email]_vars
  /\ (pc = "followups_start" /\ send.errors = <<"Critical emailer error">>)
       ~> (pc = "summary")

\* a run whose login was refused has come to its summary step: its
\* candidates' recruiters are in the store and it logged no email
C24_Witness ==
  /\ pc = "summary" /\ send.errors = <<"Critical emailer error">>
  /\ candidates # <<>> /\ jobs # <<>>
  /\ \A i \in 1..Len(candidates) :
       \E k \in 1..Len(recruiters) : recruiters[k].email = candidates[i].email
  /\ Len(emails_sent) = n0 /\ stats.emails_sent = 0

\* candidates in the list whose company is c, letter case set aside
QueuedFor(c) ==
  Cardinality({ i \in 1..Len(candidates) :
                  Lower(candidates[i].company) = Lower(c) })

\* C25: within one run, for every company the candidates queued for it
\* (names compared without regard to case) never number more than the cap,
\* also when the company comes up in several jobs of the run; a job that the
\* loop takes up (the loop goes on, it has not ended on the daily limit)
\* while its company already has the cap queued adds no candidate and saves
\* no recruiter; and every run starts with an empty candidate list, whatever
\* the store holds.
C25_InRunCapPerCompany ==
  /\ [](\A c \in Companies : QueuedFor(c) <= cfg.max_per_company)
  /\ [][(/\ pc = "jobs" /\ pc' = "jobs" /\ job_idx <= Len(job_list)
         /\ QueuedFor(job_list[job_idx].company) >= cfg.max_per_company)
        => candidates' = candidates /\ recruiters' = recruiters]_vars
  /\ [][(pc = "idle" /\ pc' = "jobs") => candidates' = <<>>]_vars

\* the run got two jobs of one company written in two ways; the first filled
\* the cap, and an address found for the second was examined and left out
C25_Witness ==
  /\ pc = "jobs" /\ Len(job_list) = 2 /\ job_idx > 2
  /\ job_list[1].company # job_list[2].company
  /\ Lower(job_list[1].company) = Lower(job_list[2].company)
  /\ cfg.max_per_company < DAILY_LIMIT
  /\ QueuedFor(job_list[2].company) = cfg.max_per_company
  /\ \E e \in examined :
       /\ \A i \in 1..Len(candidates) : candidates[i].email # e
       /\ \A k \in 1..Len(recruiters) : recruiters[k].email # e
       /\ ~already_contacted(emails_sent, e)

\* C26 as stated: the probe gives "exists" for a 250 answer to the recipient
\* command, "does not exist" for NXDOMAIN, and "inconclusive" for every other
\* outcome, a non-250 answer to the recipient command included.
C26_ProbeThreeValues ==
  last_probe.outcome # "none" =>
    last_probe.verified =
      CASE last_probe.outcome = "250" -> "True"
        [] last_probe.outcome = "NXDOMAIN" -> "False"
        [] OTHER -> "None"

\* C26: smtp_verify_email returns True for a 250 answer to the recipient
\* command, False for NXDOMAIN and for any other answer to the recipient
\* command, and None for every other outcome: no MX record, connection
\* refused, timeout or any other exception, and the probe switched off or
\* dnspython missing.
C26_ProbeOutcomeMapping ==
  last_probe.outcome # "none" =>
    /\ last_probe.outcome = "250" => last_probe.verified = "True"
    /\ last_probe.outcome \in {"NXDOMAIN", "550"}
         => last_probe.verified = "False"
    /\ last_probe.outcome \notin {"250", "NXDOMAIN", "550"}
         => last_probe.verified = "None"

\* the server answered the recipient command with another code than 250: the
\* probe returned False and the address was not kept
C26_Witness ==
  /\ last_probe.outcome = "550" /\ last_probe.verified = "False"
  /\ ~last_probe.added

\* the five local parts made from a person's name: first, first.last,
\* firstlast, flast, first_last
FromName(name) == { PersonalGuess(name)[k] : k \in 1..5 }

\* C27: for each name pattern probing tries only the five local parts made
\* from the name, in order, stops at the first that probes positive and
\* gives at most one contact for the person; so every contact labelled
\* pattern_personal has an address made from a person's name, and every
\* address probed for a person is one of that person's five.
C27_PersonalPatternsFromName ==
  /\ [](\A i \in 1..Len(loc.contacts) :
          loc.contacts[i].method = "pattern_personal"
            => \E n \in Names : loc.contacts[i].email \in FromName(n))
  /\ [][(fpc = "asu_alumni" /\ loc.phase = "personal"
           /\ last_probe' # last_probe)
        => last_probe'.email \in FromName(loc.names[loc.name_idx])]_vars

\* addresses of the candidates in a list / of the rows of recruiters
QueuedEmails(cands) == { cands[i].email : i \in 1..Len(cands) }
StoredEmails(recs) == { recs[k].email : k \in 1..Len(recs) }

\* C28: an address that is in recruiters when run_pipeline examines it is
\* never put in the candidate list (save_recruiter returns None and the
\* contact is skipped). No step queues an address that was stored and not
\* queued before the step, every run starts with nothing queued, and an
\* email is only logged for a queued address: so an address is queued in one
\* run at most, and one stored without an email sent (dry run, failed send,
\* refused login) is neither queued nor emailed by any later run.
C28_StoredAddressNeverQueuedAgain ==
  /\ [][/\ QueuedEmails(candidates') \cap StoredEmails(recruiters)
             \subseteq QueuedEmails(candidates)
        /\ Len(candidates') >= Len(candidates)
             => /\ SubSeq(candidates', 1, Len(candidates)) = candidates
                /\ \A i, k \in (Len(candidates) + 1)..Len(candidates') :
                     candidates'[i].email = candidates'[k].email => i = k
        /\ (pc = "idle" /\ pc' # "idle") => candidates' = <<>>
        /\ \A i \in (Len(emails_sent) + 1)..Len(emails_sent') :
             emails_sent'[i].recruiter_email \in QueuedEmails(candidates)]_vars
  /\ [](QueuedEmails(candidates) \subseteq StoredEmails(recruiters))

\* in the second run discovery has returned an address that an earlier run
\* stored and never emailed; the run has examined it and left it out
C28_Witness ==
  /\ pc = "jobs" /\ runs = 2 /\ job_idx > 1
  /\ \E e \in examined :
       /\ e \in StoredEmails(recruiters)
       /\ ~already_contacted(emails_sent, e)
       /\ e \notin QueuedEmails(candidates)

\* the emails_sent row the follow-up being sent is for
FollowedUp == fu.list[fu.idx].id

\* C29: an emails_sent row gets one follow-up at most over all runs: a
\* follow-up is handed to the transport only for a row whose followup_sent
\* is 0; the flag goes to 1 in the step of a successful follow-up for that
\* row and in no other step; and after a failed follow-up the table is
\* unchanged and the row is still among the follow-up candidates.
C29_OneFollowupPerEvent ==
  /\ [][TransmitsFollowup
         => /\ emails_sent[FollowedUp].followup_sent = 0
            /\ last_wire' = "delay"
                 => /\ emails_sent'[FollowedUp].followup_sent = 1
                    /\ fu'.sent_count = fu.sent_count + 1
            /\ last_wire' # "delay"
                 => /\ emails_sent' = emails_sent
                    /\ fu'.sent_count = fu.sent_count
                    /\ \E k \in 1..Len(get_followup_candidates(
                                         emails_sent', FOLLOWUP_AFTER_DAYS, now)) :
                         get_followup_candidates(
                           emails_sent', FOLLOWUP_AFTER_DAYS, now)[k].id
                           = FollowedUp]_vars
  /\ [][\A i \in 1..Len(emails_sent) :
          emails_sent'[i].followup_sent # emails_sent[i].followup_sent
            => /\ TransmitsFollowup /\ FollowedUp = i
               /\ last_wire' = "delay"
               /\ emails_sent[i].followup_sent = 0]_vars

\* of two follow-ups due, the first was sent and marked, the second failed
\* and is still a candidate
C29_Witness ==
  /\ pc = "followups" /\ Len(fu.list) = 2 /\ fu.idx = 3
  /\ fu.sent_count = 1 /\ last_wire = "failed"
  /\ emails_sent[fu.list[1].id].followup_sent = 1
  /\ emails_sent[fu.list[2].id].followup_sent = 0
  /\ \E k \in 1..Len(get_followup_candidates(emails_sent,
                                             FOLLOWUP_AFTER_DAYS, now)) :
       get_followup_candidates(emails_sent, FOLLOWUP_AFTER_DAYS, now)[k].id
         = fu.list[2].id

\* addresses with a row in emails_sent logged by either of the two processes
RowsOf(e) == { i \in 1..Len(emails_sent) : emails_sent[i].recruiter_email = e }

\* C30: however the steps of two run_pipeline processes on one store
\* interleave, no address gets two emails_sent rows: the UNIQUE insert of
\* save_recruiter lets one process at most queue a given address, also when
\* both processes have passed the company check for the same company.
C30_NoAddressEmailedTwice ==
  /\ \A e \in Emails : Cardinality(RowsOf(e)) <= 1
  /\ QueuedEmails(procs[1].candidates) \cap QueuedEmails(procs[2].candidates)
       = {}
  /\ \A p \in Procs : \A i, k \in 1..Len(procs[p].candidates) :
       procs[p].candidates[i].email = procs[p].candidates[k].email => i = k

\* both processes passed the company check for the same company and came
\* to the same address while it had no email logged; the first queued and
\* emailed it, the second was refused by save_recruiter and emailed
\* another address; both have ended
C30_Witness ==
  /\ procs[1].pc = "done" /\ procs[2].pc = "done"
  /\ Lower(procs[1].job.company) = Lower(procs[2].job.company)
  /\ \E e \in procs[2].refused :
       /\ e \in QueuedEmails(procs[1].candidates)
       /\ e \notin QueuedEmails(procs[2].candidates)
       /\ Cardinality(RowsOf(e)) = 1
  /\ procs[2].sent_count > 0

====
